---- MODULE Spec2Model ----
(***************************************************************************)
(* HackTrail scan orchestration: the POST /api/scans handler, the          *)
(* fire-and-forget processScan task, the un-awaited store*Results loops    *)
(* and the two Storage Gateway implementations (MemStorage, the instance   *)
(* exported as `storage`, and DatabaseStorage).                            *)
(*                                                                         *)
(* The model follows the JavaScript event loop.  With MemStorage every     *)
(* storage method is an async function without an inner await: its effect  *)
(* happens at the call and the caller's continuation is queued as a        *)
(* microtask (variable mq, FIFO).  Macrotasks (an HTTP request, a timer or *)
(* DNS answer that ends a strategy) start only when mq is empty.  With     *)
(* DatabaseStorage every storage method awaits a query: its effect and the *)
(* caller's continuation happen when the query completes, at any later     *)
(* moment, and the query may fail.                                         *)
(***************************************************************************)
EXTENDS Integers, Sequences, FiniteSets, TLC

\* ---------------------------------------------------------------- bounds
MaxRequests   == 2   \* POST /api/scans requests in one behaviour
MaxDbRequests == 1   \* the same, when the storage is DatabaseStorage
MaxSubdomains == 2   \* most names the subdomain strategy returns
MaxParams     == 3   \* cap on paramCount (the code draws 3..10)
MaxVulns      == 2   \* cap on vulnCount (the code draws 1..4)
MaxWordlist   == 20  \* prefixes of a built-in wordlist that are modelled
MaxShuffleAll == 3   \* longest array of which shuffle gives every permutation
MaxRotation   == 1   \* rotations of commonPaths that shuffle gives
MaxDraw       == 0   \* largest value drawn for Math.floor(Math.random() * n)
MaxChoice     == 2   \* elements of an array that randomChoice may select
MaxTechnologies  == 8   \* cap on numTechnologies (the code draws 5..14)
MaxVersionChoice == 1   \* versions of a technology that randomChoice may select
MaxUpdates == 3         \* status updates applied to the two gateways

\* ------------------------------------------------------- schema (enums)
PENDING     == "pending"
IN_PROGRESS == "in_progress"
COMPLETED   == "completed"
FAILED      == "failed"
CANCELLED   == "cancelled"
ScanStatus  == {PENDING, IN_PROGRESS, COMPLETED, FAILED, CANCELLED}
Terminal    == {COMPLETED, FAILED, CANCELLED}

FULL          == "full"
SUBDOMAIN     == "subdomain"
PARAMETER     == "parameter"
VULNERABILITY == "vulnerability"
CONTENT       == "content"
PORT_SCAN      == "port_scan"
TECH_DETECTION == "tech_detection"
ScanType      == {FULL, SUBDOMAIN, PARAMETER, VULNERABILITY, CONTENT,
                  PORT_SCAN, TECH_DETECTION}

CRITICAL == "critical"
HIGH     == "high"
MEDIUM   == "medium"
LOW      == "low"
INFO     == "info"
Severity == {CRITICAL, HIGH, MEDIUM, LOW, INFO}

Null == "null"
Date == "date"      \* the value of new Date(); only its nullness is observed

\* ------------------------------------------------- JSON request bodies
Str(s) == [t |-> "string", s |-> s, n |-> 0]
Num(k) == [t |-> "number", s |-> "", n |-> k]
Undef  == [t |-> "undefined", s |-> "", n |-> 0]

\* The bodies a client may post: targetDomain a string or missing, scanType
\* any string (the column is text, not an enum), scanDepth an integer
\* inside or outside 1..5, or a string.
TargetInputs == {Str("example.com"), Undef}
TypeInputs   == {Str(FULL), Str(SUBDOMAIN), Str(PARAMETER), Str(VULNERABILITY),
                 Str(CONTENT), Str(PORT_SCAN), Str(TECH_DETECTION),
                 Str("bogus")}
DepthInputs  == {Num(3), Num(6), Str("3")}
Bodies == [targetDomain : TargetInputs, scanType : TypeInputs,
           scanDepth : DepthInputs]

\* insertScanSchema.safeParse: createInsertSchema(scans).pick(...) requires
\* targetDomain: string, scanType: string, scanDepth: number.
\* (a schema that forgets scanDepth)
insertScanSchemaWithoutDepth(body) ==
    /\ body.targetDomain.t = "string"
    /\ body.scanType.t = "string"

insertScanSchema(body) ==
    /\ body.targetDomain.t = "string"
    /\ body.scanType.t = "string"
    /\ body.scanDepth.t = "number"

\* validatedData.data
InsertScan(body) == [targetDomain |-> body.targetDomain.s,
                     scanType     |-> body.scanType.s,
                     scanDepth    |-> body.scanDepth.n]

\* The client form's schema: scanDepth: z.number().min(1).max(5).
formSchemaDepth(d) == d >= 1 /\ d <= 5

\* ------------------------------------------------------ findings summary
NullFindings  == [shape |-> "null", items |-> {}]
EmptyFindings == [shape |-> "object", items |-> {}]              \* {}
ArrayFindings(cat, n) == [shape |-> "array", items |-> {<<cat, n>>}]
FullFindings(a, b, c) ==
    [shape |-> "object",
     items |-> {<<"subdomains", a>>, <<"parameters", b>>,
                <<"vulnerabilities", c>>}]

\* ------------------------------------------------------------ MemStorage
\* (a createScan that stores the scan as already running)
MemCreateScanRunning(insert, id) ==
    [id |-> id, targetDomain |-> insert.targetDomain,
     scanType |-> insert.scanType, scanDepth |-> insert.scanDepth,
     status |-> IN_PROGRESS, completedAt |-> Null, findings |-> NullFindings]

MemCreateScan(insert, id) ==
    [id |-> id, targetDomain |-> insert.targetDomain,
     scanType |-> insert.scanType, scanDepth |-> insert.scanDepth,
     status |-> PENDING, completedAt |-> Null, findings |-> NullFindings]

\* (an updateScanStatus whose copy leaves the status field out)
MemUpdateScanStatusNoStatus(ss, id, status) ==
    IF id \notin DOMAIN ss THEN ss
    ELSE [ss EXCEPT ![id].completedAt =
                        IF status = COMPLETED THEN Date ELSE @]

\* (an updateScanStatus that ignores the id and writes the status to every
\* stored scan)
MemUpdateScanStatusEveryScan(ss, id, status) ==
    [j \in DOMAIN ss |->
        [ss[j] EXCEPT !.status = status,
                      !.completedAt = IF status = COMPLETED THEN Date ELSE @]]

MemUpdateScanStatus(ss, id, status) ==
    IF id \notin DOMAIN ss THEN ss
    ELSE [ss EXCEPT ![id].status = status,
                    ![id].completedAt =
                        IF status = COMPLETED THEN Date ELSE @]

MemUpdateScanFindings(ss, id, findings) ==
    IF id \notin DOMAIN ss THEN ss
    ELSE [ss EXCEPT ![id].findings = findings]

\* (a createScanResult that keeps one result per scan: it replaces the
\* results stored for the same scan)
MemCreateScanResultReplacing(rs, rid, insert) ==
    Append(SelectSeq(rs, LAMBDA r : r.scanId # insert.scanId),
           [id |-> rid, scanId |-> insert.scanId,
            resultType |-> insert.resultType,
            severity |-> insert.severity, item |-> insert.item,
            details |-> insert.details])

MemCreateScanResult(rs, rid, insert) ==
    Append(rs, [id |-> rid, scanId |-> insert.scanId,
                resultType |-> insert.resultType,
                severity |-> insert.severity, item |-> insert.item,
                details |-> insert.details])

\* ------------------------------------------------------- DatabaseStorage
DbCreateScan(insert, id) ==
    [id |-> id, targetDomain |-> insert.targetDomain,
     scanType |-> insert.scanType, scanDepth |-> insert.scanDepth,
     status |-> PENDING, completedAt |-> Null, findings |-> NullFindings]

DbUpdateScanStatus(ss, id, status) ==
    IF id \notin DOMAIN ss THEN ss
    ELSE [ss EXCEPT ![id].status = status,
                    ![id].completedAt =
                        IF status = COMPLETED THEN Date ELSE Null]

DbUpdateScanFindings(ss, id, findings) ==
    IF id \notin DOMAIN ss THEN ss
    ELSE [ss EXCEPT ![id].findings = findings]

DbCreateScanResult(rs, rid, insert) ==
    Append(rs, [id |-> rid, scanId |-> insert.scanId,
                resultType |-> insert.resultType,
                severity |-> insert.severity, item |-> insert.item,
                details |-> insert.details])

\* ================================================================ state
VARIABLES
    backend,      \* "mem": storage = new MemStorage(); "db": DatabaseStorage
    scans,        \* the scans map / table: id -> Scan
    scanId,       \* MemStorage.scanId / the serial of scans.id
    scanResults,  \* the scanResults map / table, in insertion order
    resultId,     \* MemStorage.resultId / the serial of scan_results.id
    reqs,         \* the POST /api/scans requests so far, with their responses
    proc,         \* the processScan tasks: scan id -> position and locals
    stores,       \* the store*Results tasks: <<scan id, category>> -> loop state
    mq,           \* the microtask queue (continuations of resolved awaits)
    hist,         \* history: the statuses written to each scan, in order
    unhandled,    \* store*Results promises that rejected with nobody awaiting
    \* one call of performSubdomainEnumeration
    sdPc,           \* its position ("off": no call is modelled)
    sdArgs,         \* its arguments: domain, techniques, wordlist
    sdEnv,          \* the resolver's answers: ns, mx, txt, the names that resolve
    prefixes,       \* the local `prefixes`
    subdomains,     \* the local `subdomains`
    lookupPromises, \* the outcomes of lookupPromises / permutationPromises
    sdI,            \* the loop variable i of the batch loop
    sdLookups,      \* history: the <<phase, name>> of every lookup() called
    sdResult,       \* the value returned
    \* one call of simulatePortScan
    psPc,           \* its position ("off": no call is modelled)
    psArgs,         \* portRange, scanSpecificPorts, specificPorts, commonPortsOnly
    scanVersion,    \* its argument scanVersion
    portsToScan,    \* the local `portsToScan`
    psResults,      \* the value returned
    \* one call of simulateContentDiscovery
    cdPc,           \* its position ("off": no call is modelled)
    cdArgs,         \* wordlistType, recursive, fileExtensions, statusCodesToInclude
    resultCount,    \* the local `resultCount`
    cdPaths,        \* the local `directories`, then the local `files`
    cdI,            \* the position of the loop over directories / files
    cdJ,            \* the position of the inner loop over extensions
    cdResults,      \* the local `results`, then the value returned
    \* one call of simulateTechDetection
    tdPc,                 \* its position ("off": no call is modelled)
    tdUrl,                \* its argument url
    numTechnologies,      \* the local `numTechnologies`
    selectedCategories,   \* the local `selectedCategories`
    tdI,                  \* the position of the loop over selectedCategories
    detectedTechnologies, \* the local `detectedTechnologies`
    tdResult,             \* the value returned
    \* the two Storage Gateways side by side
    memScans,             \* MemStorage's map `scans` ("off": <<>>)
    dbScans,              \* DatabaseStorage's table scans
    statusUpdates         \* history: the <<id, status>> of every update applied

sdVars == <<sdPc, sdArgs, sdEnv, prefixes, subdomains, lookupPromises, sdI,
            sdLookups, sdResult>>
psVars == <<psPc, psArgs, scanVersion, portsToScan, psResults>>
cdVars == <<cdPc, cdArgs, resultCount, cdPaths, cdI, cdJ, cdResults>>
tdVars == <<tdPc, tdUrl, numTechnologies, selectedCategories, tdI,
            detectedTechnologies, tdResult>>
gwVars == <<memScans, dbScans, statusUpdates>>
toolVars == <<sdVars, psVars, cdVars, tdVars, gwVars>>
orchVars == <<backend, scans, scanId, scanResults, resultId, reqs, proc,
              stores, mq, hist, unhandled>>

vars == <<orchVars, toolVars>>

\* ------------------------------------------------------------ event loop
HandlerTok(r)    == [k |-> "handler", a |-> r, c |-> ""]
ProcTok(id)      == [k |-> "proc", a |-> id, c |-> ""]
StoreTok(id, c)  == [k |-> "store", a |-> id, c |-> c]

\* (an event loop that starts a macrotask while microtasks are queued)
IdleAnyTime == TRUE

\* A macrotask starts only when the microtask queue has drained.
Idle == mq = <<>>

\* The continuation of an await.  MemStorage: the awaited promise is already
\* resolved, the continuation is the microtask at the head of the queue.
\* DatabaseStorage: the query completes whenever the database answers.
Turn(tok) == IF backend = "mem" THEN mq # <<>> /\ Head(mq) = tok ELSE Idle
Deq       == IF backend = "mem" THEN Tail(mq) ELSE mq
Enq(q, toks) == IF backend = "mem" THEN q \o toks ELSE q

\* The requests one behaviour of the model takes.
RequestBound == IF backend = "db" THEN MaxDbRequests ELSE MaxRequests

\* The answers a storage query can get: MemStorage never fails.
Outcomes == IF backend = "db" THEN BOOLEAN ELSE {TRUE}

\* ------------------------------------------- storage calls in two halves
\* ...AtCall: what the call itself does (MemStorage: everything).
\* ...AtDone: what the completion of the query does (DatabaseStorage).
StatusAtCall(ss, id, st) ==
    IF backend = "mem" THEN MemUpdateScanStatus(ss, id, st) ELSE ss
StatusAtDone(ss, id, st, ok) ==
    IF backend = "db" /\ ok THEN DbUpdateScanStatus(ss, id, st) ELSE ss
FindingsAtCall(ss, id, f) ==
    IF backend = "mem" THEN MemUpdateScanFindings(ss, id, f) ELSE ss
FindingsAtDone(ss, id, f, ok) ==
    IF backend = "db" /\ ok THEN DbUpdateScanFindings(ss, id, f) ELSE ss
\* The history records the status a status write left in the store (ss).
HistAtCall(h, ss, id) ==
    IF backend = "mem" THEN [h EXCEPT ![id] = Append(@, ss[id].status)] ELSE h
HistAtDone(h, ss, id, ok) ==
    IF backend = "db" /\ ok THEN [h EXCEPT ![id] = Append(@, ss[id].status)]
    ELSE h

\* ----------------------------------------------------------- strategies
Min(a, b) == IF a < b THEN a ELSE b

\* performSubdomainEnumeration returns any list of names (or [] from its
\* own catch); performParameterDiscovery returns commonParameters.slice(0,
\* paramCount), performVulnerabilityScan potentialVulnerabilities.slice(0,
\* vulnCount).
ResultCounts(phase) ==
    CASE phase = SUBDOMAIN     -> 0 .. MaxSubdomains
      [] phase = PARAMETER     -> 3 .. Min(10, MaxParams)
      [] phase = VULNERABILITY -> 1 .. Min(4, MaxVulns)

\* The subdomain strategy catches every error itself and returns []; the
\* other two have no handler: an exception in them rejects their promise.
CanThrow(phase) == phase \in {PARAMETER, VULNERABILITY}

\* (a switch whose default branch runs the vulnerability strategy)
FirstPhaseDefaultsToScan(scanType) ==
    CASE scanType = SUBDOMAIN     -> SUBDOMAIN
      [] scanType = PARAMETER     -> PARAMETER
      [] scanType = FULL          -> SUBDOMAIN
      [] OTHER                    -> VULNERABILITY

\* The switch of processScan: the first strategy of a scan type, the
\* strategy after `phase`, "none" when there is none.
FirstPhase(scanType) ==
    CASE scanType = SUBDOMAIN     -> SUBDOMAIN
      [] scanType = PARAMETER     -> PARAMETER
      [] scanType = VULNERABILITY -> VULNERABILITY
      [] scanType = FULL          -> SUBDOMAIN
      [] OTHER                    -> "none"

NextPhase(scanType, phase) ==
    CASE scanType = FULL /\ phase = SUBDOMAIN -> PARAMETER
      [] scanType = FULL /\ phase = PARAMETER -> VULNERABILITY
      [] OTHER                                -> "none"

\* The local `findings` of processScan when the last strategy has returned.
\* p.n is the number of items each strategy returned.
FinalFindings(p, phase, n) ==
    IF p.scanType = FULL
    THEN FullFindings(p.n[SUBDOMAIN], p.n[PARAMETER], n)
    ELSE ArrayFindings(phase, n)

\* The table performParameterDiscovery slices its result from.
commonParameters ==
    << [name |-> "id", type |-> "number"],
       [name |-> "page", type |-> "number"],
       [name |-> "q", type |-> "string"],
       [name |-> "search", type |-> "string"],
       [name |-> "filter", type |-> "string"],
       [name |-> "sort", type |-> "string"],
       [name |-> "limit", type |-> "number"],
       [name |-> "offset", type |-> "number"],
       [name |-> "token", type |-> "string"],
       [name |-> "callback", type |-> "string"],
       [name |-> "redirect", type |-> "url"],
       [name |-> "lang", type |-> "string"],
       [name |-> "theme", type |-> "string"] >>

\* The table performVulnerabilityScan slices its result from.
potentialVulnerabilities ==
    << [type |-> "XSS", description |-> "xss in search parameter",
        severity |-> HIGH],
       [type |-> "SQLi", description |-> "sql injection in id parameter",
        severity |-> CRITICAL],
       [type |-> "CSRF", description |-> "csrf in form submission",
        severity |-> MEDIUM],
       [type |-> "Open Redirect", description |-> "open redirect",
        severity |-> MEDIUM],
       [type |-> "Information Disclosure", description |-> "version in headers",
        severity |-> LOW],
       [type |-> "Missing Security Headers", description |-> "missing csp",
        severity |-> LOW],
       [type |-> "Insecure Cookie", description |-> "cookie without secure",
        severity |-> MEDIUM],
       [type |-> "Directory Listing", description |-> "listing enabled",
        severity |-> LOW] >>

\* (a storeVulnerabilityResults that stores the whole vulnerability, its
\* severity included, as the details)
InsertResultNestedSeverity(id, cat, k) ==
    [scanId |-> id, resultType |-> cat,
     severity |-> INFO,
     item |-> k,
     details |-> CASE cat = SUBDOMAIN -> [domain |-> k]
                   [] cat = PARAMETER -> commonParameters[k]
                   [] OTHER           -> potentialVulnerabilities[k]]

\* (a store function that files every finding as a vulnerability)
InsertResultAsVulnerability(id, cat, k) ==
    [scanId |-> id, resultType |-> VULNERABILITY,
     severity |-> INFO,
     item |-> k,
     details |-> CASE cat = SUBDOMAIN -> [domain |-> k]
                   [] cat = PARAMETER -> commonParameters[k]
                   [] OTHER           ->
                        [type |-> potentialVulnerabilities[k].type,
                         description |->
                             potentialVulnerabilities[k].description]]

\* The argument of storage.createScanResult for item k of a category, as
\* storeSubdomainResults, storeParameterResults and
\* storeVulnerabilityResults build it.  Item k of the subdomain strategy is
\* the k-th name it returned.
InsertResult(id, cat, k) ==
    [scanId |-> id, resultType |-> cat,
     severity |-> IF cat = VULNERABILITY
                  THEN potentialVulnerabilities[k].severity ELSE INFO,
     item |-> k,
     details |-> CASE cat = SUBDOMAIN -> [domain |-> k]
                   [] cat = PARAMETER -> commonParameters[k]
                   [] OTHER           ->
                        [type |-> potentialVulnerabilities[k].type,
                         description |->
                             potentialVulnerabilities[k].description]]

NoScan == MemCreateScan([targetDomain |-> "", scanType |-> "", scanDepth |-> 0], 0)

\* ====================================================== subdomain strategy
\* performSubdomainEnumeration(domain, techniques, wordlist).  A string is a
\* sequence of one-character strings, so that includes, endsWith, split and
\* the template literals are computed character by character.
Dot  == <<".">>
Dash == <<"-">>

\* s.includes(sub): sub occurs somewhere in s.
includes(s, sub) ==
    \E i \in 1 .. Len(s) + 1 :
        /\ i + Len(sub) - 1 <= Len(s)
        /\ SubSeq(s, i, i + Len(sub) - 1) = sub

\* s.endsWith(suf)
endsWith(s, suf) ==
    /\ Len(suf) <= Len(s)
    /\ SubSeq(s, Len(s) - Len(suf) + 1, Len(s)) = suf

\* s.split('.')[0]: the part of s before its first dot, s when it has none.
splitFirst(s) ==
    IF \E i \in 1 .. Len(s) : s[i] = "."
    THEN LET i == CHOOSE j \in 1 .. Len(s) :
                      s[j] = "." /\ \A k \in 1 .. j - 1 : s[k] # "."
         IN SubSeq(s, 1, i - 1)
    ELSE s

\* array.includes(x)
arrayIncludes(a, x) == \E i \in DOMAIN a : a[i] = x

\* [...new Set(a)]: the elements of a in the order of their first occurrence.
\* (The array and the positions kept are bound as values, so that each is
\* computed once.)
FirstOccurrences(s) ==
    SelectSeq([i \in DOMAIN s |-> i],
              LAMBDA i : \A j \in 1 .. i - 1 : s[j] # s[i])

uniq(a) ==
    CHOOSE r \in UNION { { [k \in DOMAIN keep |-> s[keep[k]]] :
                              keep \in {FirstOccurrences(s)} } :
                        s \in {a} } : TRUE

\* The target of the enumeration.
ExampleCom == <<"e", "x", "a", "m", "p", "l", "e", ".", "c", "o", "m">>

\* The wordlist "default" (20 prefixes).
defaultWordlist ==
    << <<"w", "w", "w">>,
       <<"m", "a", "i", "l">>,
       <<"f", "t", "p">>,
       <<"a", "d", "m", "i", "n">>,
       <<"b", "l", "o", "g">>,
       <<"s", "h", "o", "p">>,
       <<"d", "e", "v">>,
       <<"a", "p", "i">>,
       <<"t", "e", "s", "t">>,
       <<"s", "t", "a", "g", "i", "n", "g">>,
       <<"a", "p", "p">>,
       <<"s", "u", "p", "p", "o", "r", "t">>,
       <<"s", "e", "c", "u", "r", "e">>,
       <<"v", "p", "n">>,
       <<"c", "d", "n">>,
       <<"m", "e", "d", "i", "a">>,
       <<"s", "t", "a", "t", "i", "c">>,
       <<"f", "o", "r", "u", "m">>,
       <<"n", "s", "1">>,
       <<"n", "s", "2">> >>

\* The prefixes of a built-in wordlist that are modelled.
Excerpt(list) == SubSeq(list, 1, Min(MaxWordlist, Len(list)))

\* An excerpt of the wordlist "large", which lists search, jenkins, jira and
\* status twice.
largeWordlist ==
    << <<"w", "w", "w">>,
       <<"m", "a", "i", "l">>,
       <<"s", "e", "a", "r", "c", "h">>,
       <<"j", "e", "n", "k", "i", "n", "s">>,
       <<"j", "i", "r", "a">>,
       <<"s", "t", "a", "t", "u", "s">>,
       <<"s", "e", "a", "r", "c", "h">>,
       <<"j", "e", "n", "k", "i", "n", "s">>,
       <<"j", "i", "r", "a">>,
       <<"s", "t", "a", "t", "u", "s">> >>

\* A custom wordlist a client sends as the technique argument; it repeats
\* a prefix.
CustomPrefixes == << <<"w", "w", "w">>, <<"q", "a">>, <<"w", "w", "w">> >>

\* The technique argument: a selector string or an array of prefixes.
Technique(s) == [t |-> "string", s |-> s, a |-> <<>>]
PrefixArray(a) == [t |-> "array", s |-> "", a |-> a]

TechniqueInputs == {Technique("all"), Technique("dns"), Technique("bruteforce"),
                    Technique("permutations"), PrefixArray(CustomPrefixes)}
WordlistInputs  == {"default", "large", "custom"}

\* The hostnames the NS, MX and TXT records of the target may name: a
\* subdomain, the target itself, a foreign name that contains the target, a
\* name that ends with the target without being its subdomain, and an
\* unrelated name.
Ns1ExampleCom  == <<"n", "s", "1", ".", "e", "x", "a", "m", "p", "l", "e", ".", "c", "o", "m">>
ExampleComEvil == <<"e", "x", "a", "m", "p", "l", "e", ".", "c", "o", "m", ".", "e", "v", "i", "l", ".", "n", "e", "t">>
NotExampleCom  == <<"n", "o", "t", "e", "x", "a", "m", "p", "l", "e", ".", "c", "o", "m">>
SpfGoogleCom   == <<"s", "p", "f", ".", "g", "o", "o", "g", "l", "e", ".", "c", "o", "m">>

\* An answer of the resolver: the records, or a failure.
Answer(recs) == [ok |-> TRUE, recs |-> recs]
NoAnswer     == [ok |-> FALSE, recs |-> <<>>]

NsAnswers  == {NoAnswer, Answer(<<Ns1ExampleCom, Ns1ExampleCom>>),
               Answer(<<ExampleComEvil, SpfGoogleCom>>)}
MxAnswers  == {Answer(<<Ns1ExampleCom>>), Answer(<<ExampleCom>>)}
\* A TXT answer is given by the names its records carry after "include:".
TxtAnswers == {Answer(<<>>), Answer(<<SpfGoogleCom, NotExampleCom>>)}

\* The names that may resolve when looked up.
LiveNames == { <<"w", "w", "w", ".", "e", "x", "a", "m", "p", "l", "e", ".", "c", "o", "m">>,
               <<"n", "s", "1", ".", "e", "x", "a", "m", "p", "l", "e", ".", "c", "o", "m">>,
               <<"q", "a", ".", "e", "x", "a", "m", "p", "l", "e", ".", "c", "o", "m">>,
               <<"w", "w", "w", "-", "n", "s", "1", ".", "e", "x", "a", "m", "p", "l", "e", ".", "c", "o", "m">> }

\* The names whose lookup never answers: none, or one candidate of the
\* brute-force phase.
MailExampleCom == <<"m", "a", "i", "l", ".", "e", "x", "a", "m", "p", "l", "e", ".", "c", "o", "m">>
HungNames == {{}, {MailExampleCom}}

\* The wordlist selection (lines 340-395): an unknown wordlist name, or
\* "custom" without an array, leaves the prefixes empty.
SelectWordlist(wordlist, techniques) ==
    IF wordlist = "default" THEN Excerpt(defaultWordlist)
    ELSE IF wordlist = "large" THEN Excerpt(largeWordlist)
    ELSE IF wordlist = "custom" /\ techniques.t = "array" THEN techniques.a
    ELSE <<>>

\* The technique flags: techniques === "all" || techniques === <name>.
useDNS(techniques) ==
    techniques.t = "string" /\ techniques.s \in {"all", "dns"}
useBruteForce(techniques) ==
    techniques.t = "string" /\ techniques.s \in {"all", "bruteforce"}
usePermutations(techniques) ==
    techniques.t = "string" /\ techniques.s \in {"all", "permutations"}

\* The loops over nameservers, mxRecords and the include: matches: a name is
\* pushed when it is not in subdomains yet and contains the domain.
RECURSIVE AddRecords(_, _, _)
AddRecords(subs, recs, domain) ==
    IF recs = <<>> THEN subs
    ELSE LET h == Head(recs)
             s == IF ~arrayIncludes(subs, h) /\ includes(h, domain)
                  THEN Append(subs, h) ELSE subs
         IN AddRecords(s, Tail(recs), domain)

\* try { records = await resolveX(domain); ... } catch { }
AddAnswer(subs, answer, domain) ==
    IF answer.ok THEN AddRecords(subs, answer.recs, domain) ELSE subs

\* `${prefix}.${domain}`
Fqdn(prefix, domain) == prefix \o Dot \o domain

\* (a probe without the try/catch: a failed lookup rejects its promise)
LookupNoCatch(subdomain, live) ==
    [state |-> IF subdomain \in live THEN "fulfilled" ELSE "rejected",
     value |-> IF subdomain \in live THEN subdomain ELSE <<>>]

\* The async closure of lookupPromises and permutationPromises: the name
\* when lookup(subdomain) succeeds, null (here the empty string, falsy as
\* well) when it throws.
Lookup(subdomain, live) ==
    [state |-> "fulfilled",
     value |-> IF subdomain \in live THEN subdomain ELSE <<>>]

\* results.forEach(result => { if (result && !subdomains.includes(result))
\* subdomains.push(result) })
(* a forEach that pushes every result that resolved *)
RECURSIVE PushResultsUnchecked(_, _)
PushResultsUnchecked(subs, results) ==
    IF results = <<>> THEN subs
    ELSE LET r == Head(results).value
             s == IF r # <<>> THEN Append(subs, r) ELSE subs
         IN PushResultsUnchecked(s, Tail(results))

RECURSIVE PushResults(_, _)
PushResults(subs, results) ==
    IF results = <<>> THEN subs
    ELSE LET r == Head(results).value
             s == IF r # <<>> /\ ~arrayIncludes(subs, r)
                  THEN Append(subs, r) ELSE subs
         IN PushResults(s, Tail(results))

\* A closure of lookupPromises / permutationPromises after its call:
\* `await lookup(subdomain)` has no timeout, so the promise of a lookup
\* that never answers stays pending.
Probe(subdomain, env) ==
    IF subdomain \in env.hung THEN [state |-> "pending", value |-> <<>>]
    ELSE Lookup(subdomain, env.live)

\* Promise.all(batch): rejected as soon as one promise is, fulfilled when
\* every promise is, pending until then.
PromiseAll(batch) ==
    IF \E j \in DOMAIN batch : batch[j].state = "rejected" THEN "rejected"
    ELSE IF \E j \in DOMAIN batch : batch[j].state = "pending" THEN "pending"
    ELSE "fulfilled"

batchSize == 10

\* promises.slice(i, i + batchSize), i counted from 0.
Batch(promises, i) ==
    SubSeq(promises, i + 1, Min(i + batchSize, Len(promises)))

\* The names added to the permutations set, in the order of the three
\* nested loops: for each discovered prefix, each common prefix and each
\* separator, prefix+sep+common.domain then common+sep+prefix.domain.
separators == <<Dash, Dot>>

PermutationAt(discovered, common, domain, k) ==
    LET per == Len(common) * 4
        p   == discovered[(k \div per) + 1]
        c   == common[((k % per) \div 4) + 1]
        sep == separators[((k % 4) \div 2) + 1]
    IN IF k % 2 = 0 THEN p \o sep \o c \o Dot \o domain
       ELSE c \o sep \o p \o Dot \o domain

\* Array.from(permutations)
PermutationNames(subs, common, domain) ==
    LET discovered == [i \in DOMAIN subs |-> splitFirst(subs[i])]
        total      == Len(discovered) * Len(common) * 4
    IN uniq([k \in 1 .. total |->
                 PermutationAt(discovered, common, domain, k - 1)])

\* --------------------------------------------- the strategy, step by step
\* One call of performSubdomainEnumeration: sdArgs are its arguments, sdEnv
\* what the resolver answers during the call.
SdInputs == [domain : {ExampleCom}, techniques : TechniqueInputs,
             wordlist : WordlistInputs]
SdEnvs   == [ns : NsAnswers, mx : MxAnswers, txt : TxtAnswers,
             live : SUBSET LiveNames, hung : HungNames]

NoSdArgs == [domain |-> <<>>, techniques |-> Technique(""), wordlist |-> ""]
NoSdEnv  == [ns |-> NoAnswer, mx |-> NoAnswer, txt |-> NoAnswer, live |-> {},
             hung |-> {}]

\* No call of the strategy is modelled.
SdOff ==
    /\ sdPc = "off"
    /\ sdArgs = NoSdArgs
    /\ sdEnv = NoSdEnv
    /\ prefixes = <<>>
    /\ subdomains = <<>>
    /\ lookupPromises = <<>>
    /\ sdI = 0
    /\ sdLookups = {}
    /\ sdResult = <<>>

\* The call: const subdomains = [], let prefixes = [].
SdCall ==
    /\ sdPc = "call"
    /\ sdArgs \in SdInputs
    /\ sdEnv \in SdEnvs
    /\ prefixes = <<>>
    /\ subdomains = <<>>
    /\ lookupPromises = <<>>
    /\ sdI = 0
    /\ sdLookups = {}
    /\ sdResult = <<>>

\* Lines 338-403: the wordlist is selected and its duplicates removed.
SdSelectWordlist ==
    /\ sdPc = "call"
    /\ prefixes' = uniq(SelectWordlist(sdArgs.wordlist, sdArgs.techniques))
    /\ sdPc' = "dns"
    /\ UNCHANGED <<sdArgs, sdEnv, subdomains, lookupPromises, sdI, sdLookups,
                   sdResult>>
    /\ UNCHANGED <<orchVars, psVars, cdVars, tdVars, gwVars>>

\* Lines 405-451: the NS, MX and TXT records of the domain, when useDNS.
SdDnsRecords ==
    /\ sdPc = "dns"
    /\ subdomains' =
         IF useDNS(sdArgs.techniques)
         THEN AddAnswer(AddAnswer(AddAnswer(subdomains, sdEnv.ns, sdArgs.domain),
                                  sdEnv.mx, sdArgs.domain),
                        sdEnv.txt, sdArgs.domain)
         ELSE subdomains
    /\ sdPc' = "bruteforce"
    /\ UNCHANGED <<sdArgs, sdEnv, prefixes, lookupPromises, sdI, sdLookups,
                   sdResult>>
    /\ UNCHANGED <<orchVars, psVars, cdVars, tdVars, gwVars>>

\* Lines 453-463: prefixes.map(async ...) calls lookup for every prefix at
\* once; the for loop then awaits the first batch.
SdBruteForce ==
    /\ sdPc = "bruteforce"
    /\ IF useBruteForce(sdArgs.techniques)
       THEN /\ lookupPromises' =
                 [i \in DOMAIN prefixes |->
                     Probe(Fqdn(prefixes[i], sdArgs.domain), sdEnv)]
            /\ sdLookups' = sdLookups \cup
                 {<<"bruteforce", Fqdn(prefixes[i], sdArgs.domain)>> :
                      i \in DOMAIN prefixes}
            /\ sdPc' = IF Len(prefixes) > 0 THEN "bruteforceBatch"
                       ELSE "permutations"
       ELSE /\ sdPc' = "permutations"
            /\ UNCHANGED <<lookupPromises, sdLookups>>
    /\ sdI' = 0
    /\ UNCHANGED <<sdArgs, sdEnv, prefixes, subdomains, sdResult>>
    /\ UNCHANGED <<orchVars, psVars, cdVars, tdVars, gwVars>>

\* Lines 466-475: await Promise.all(batch) settles (it does not while a
\* promise of the batch is pending); its results are pushed.
\* A rejected promise in the batch would throw into the catch of lines
\* 518-521, which returns [].
SdBruteForceBatch ==
    /\ sdPc = "bruteforceBatch"
    /\ LET batch == Batch(lookupPromises, sdI)
       IN /\ PromiseAll(batch) # "pending"
          /\ IF PromiseAll(batch) = "rejected"
             THEN /\ sdResult' = <<>>
                  /\ sdPc' = "done"
                  /\ UNCHANGED <<subdomains, sdI>>
             ELSE /\ subdomains' = PushResults(subdomains, batch)
                  /\ sdI' = sdI + batchSize
                  /\ sdPc' = IF sdI + batchSize < Len(lookupPromises)
                             THEN "bruteforceBatch" ELSE "permutations"
                  /\ UNCHANGED sdResult
    /\ UNCHANGED <<sdArgs, sdEnv, prefixes, lookupPromises, sdLookups>>
    /\ UNCHANGED <<orchVars, psVars, cdVars, tdVars, gwVars>>

\* Lines 478-503: when usePermutations and subdomains is not empty, the
\* permutations are built and lookup is called for each of them.
SdPermutations ==
    /\ sdPc = "permutations"
    /\ IF usePermutations(sdArgs.techniques) /\ Len(subdomains) > 0
       THEN \E permutations \in
                   {PermutationNames(subdomains, prefixes, sdArgs.domain)} :
               /\ lookupPromises' =
                    [i \in DOMAIN permutations |->
                        Probe(permutations[i], sdEnv)]
               /\ sdLookups' = sdLookups \cup
                    {<<"permutations", permutations[i]>> :
                         i \in DOMAIN permutations}
               /\ sdPc' = IF Len(permutations) > 0 THEN "permutationBatch"
                          ELSE "return"
       ELSE /\ sdPc' = "return"
            /\ UNCHANGED <<lookupPromises, sdLookups>>
    /\ sdI' = 0
    /\ UNCHANGED <<sdArgs, sdEnv, prefixes, subdomains, sdResult>>
    /\ UNCHANGED <<orchVars, psVars, cdVars, tdVars, gwVars>>

\* Lines 505-514: the batches of the permutation lookups.
SdPermutationBatch ==
    /\ sdPc = "permutationBatch"
    /\ LET batch == Batch(lookupPromises, sdI)
       IN /\ PromiseAll(batch) # "pending"
          /\ IF PromiseAll(batch) = "rejected"
             THEN /\ sdResult' = <<>>
                  /\ sdPc' = "done"
                  /\ UNCHANGED <<subdomains, sdI>>
             ELSE /\ subdomains' = PushResults(subdomains, batch)
                  /\ sdI' = sdI + batchSize
                  /\ sdPc' = IF sdI + batchSize < Len(lookupPromises)
                             THEN "permutationBatch" ELSE "return"
                  /\ UNCHANGED sdResult
    /\ UNCHANGED <<sdArgs, sdEnv, prefixes, lookupPromises, sdLookups>>
    /\ UNCHANGED <<orchVars, psVars, cdVars, tdVars, gwVars>>

\* Line 517: return subdomains.
SdReturn ==
    /\ sdPc = "return"
    /\ sdResult' = subdomains
    /\ sdPc' = "done"
    /\ UNCHANGED <<sdArgs, sdEnv, prefixes, subdomains, lookupPromises, sdI,
                   sdLookups>>
    /\ UNCHANGED <<orchVars, psVars, cdVars, tdVars, gwVars>>

\* ====================================================== JavaScript values
\* A JavaScript number x is the integer x * Unit: its first decimal is
\* kept, which is all the modelled inputs carry.  NaN is a value of its
\* own; every comparison with it is false.
Unit == 10
NaN  == -1000000000

\* The integer n as a JavaScript number.
JsNum(n) == n * Unit

isNaN(x)    == x = NaN
JsLt(a, b)  == ~isNaN(a) /\ ~isNaN(b) /\ a < b
JsGt(a, b)  == ~isNaN(a) /\ ~isNaN(b) /\ a > b

Digits == {"0", "1", "2", "3", "4", "5", "6", "7", "8", "9"}
DigitOf ==
    [c \in Digits |->
        CASE c = "0" -> 0 [] c = "1" -> 1 [] c = "2" -> 2 [] c = "3" -> 3
          [] c = "4" -> 4 [] c = "5" -> 5 [] c = "6" -> 6 [] c = "7" -> 7
          [] c = "8" -> 8 [] c = "9" -> 9]

\* The value of a string of digits.
RECURSIVE DigitsValue(_)
DigitsValue(s) ==
    IF s = <<>> THEN 0
    ELSE 10 * DigitsValue(SubSeq(s, 1, Len(s) - 1)) + DigitOf[s[Len(s)]]

AllDigits(s) == \A i \in DOMAIN s : s[i] \in Digits

\* s.trim()
trim(s) ==
    LET ink == {i \in DOMAIN s : s[i] # " "}
    IN IF ink = {} THEN <<>>
       ELSE SubSeq(s, CHOOSE i \in ink : \A j \in ink : i <= j,
                      CHOOSE i \in ink : \A j \in ink : i >= j)

\* s.split(c) for a one-character separator; "".split(c) is [""].
split(s, c) ==
    LET isCut(i) == s[i] = c
        cuts     == SelectSeq([i \in DOMAIN s |-> i], isCut)
        ends     == <<0>> \o cuts \o <<Len(s) + 1>>
    IN [k \in 1 .. Len(cuts) + 1 |-> SubSeq(s, ends[k] + 1, ends[k + 1] - 1)]

\* The longest prefix of s made of digits.
DigitPrefix(s) ==
    LET stop == {i \in DOMAIN s : s[i] \notin Digits}
    IN IF stop = {} THEN s
       ELSE SubSeq(s, 1, (CHOOSE i \in stop : \A j \in stop : i <= j) - 1)

\* parseInt(s): leading blanks are skipped, then an optional sign and the
\* longest run of digits are read; NaN when there is no digit.
parseInt(s) ==
    LET ink  == {i \in DOMAIN s : s[i] # " "}
        t    == IF ink = {} THEN <<>>
                ELSE SubSeq(s, CHOOSE i \in ink : \A j \in ink : i <= j, Len(s))
        neg  == t # <<>> /\ t[1] = "-"
        body == IF t # <<>> /\ t[1] \in {"-", "+"} THEN Tail(t) ELSE t
        ds   == DigitPrefix(body)
    IN IF ds = <<>> THEN NaN
       ELSE IF neg THEN 0 - DigitsValue(ds) * Unit
       ELSE DigitsValue(ds) * Unit

\* Number(s) for the strings split('-') yields: blanks around the number
\* are ignored, "" is 0, digits with at most one "." and one decimal are a
\* number, anything else is NaN.
Number(s) ==
    LET t     == trim(s)
        parts == split(t, ".")
    IN IF t = <<>> THEN 0
       ELSE IF AllDigits(t) THEN DigitsValue(t) * Unit
       ELSE IF /\ Len(parts) = 2
               /\ AllDigits(parts[1])
               /\ Len(parts[2]) = 1
               /\ AllDigits(parts[2])
       THEN DigitsValue(parts[1]) * Unit + DigitsValue(parts[2])
       ELSE NaN

\* Math.min(a, b)
MathMin(a, b) == IF a < b THEN a ELSE b

\* Math.floor(n * p / q) for integers n, p, q
FloorMul(n, p, q) == (n * p) \div q

\* ============================================================== port scan
\* simulatePortScan(target, portRange, scanSpeed, scanVersion,
\* scanSpecificPorts, specificPorts, commonPortsOnly).
\* The port specifications a client may send.
Range1To1000      == <<"1", "-", "1", "0", "0", "0">>
List22_80_443     == <<"2", "2", ",", "8", "0", ",", "4", "4", "3">>
ListWithBlanks    == <<" ", "2", "2", ",", " ", "8", "0", " ", ",", "x", ",", "0", ",", "7", "0", "0", "0", "0">>
RangeTopOfSpace   == <<"6", "5", "5", "0", "0", "-", "6", "5", "5", "3", "5">>
RangeBeyondSpace  == <<"6", "5", "5", "3", "0", "-", "6", "5", "5", "4", "0">>
RangeBackwards    == <<"5", "-", "1">>
RangesOverlapping == <<"1", "-", "3", ",", "2", "-", "4">>
RangeFractional   == <<"1", ".", "5", "-", "3">>
List31Ports ==
    <<"1", ",", "2", ",", "3", ",", "4", ",", "5", ",", "6", ",", "7", ",", "8", ",", "9", ",", "1", "0", ",", "1", "1", ",", "1", "2", ",", "1", "3", ",", "1", "4", ",", "1", "5", ",", "1", "6", ",", "1">> \o
    <<"7", ",", "1", "8", ",", "1", "9", ",", "2", "0", ",", "2", "1", ",", "2", "2", ",", "2", "3", ",", "2", "4", ",", "2", "5", ",", "2", "6", ",", "2", "7", ",", "2", "8", ",", "2", "9", ",", "3", "0", ",", "3", "1">>
Empty == <<>>

PortRequest(range, specific, list, common) ==
    [portRange |-> range, scanSpecificPorts |-> specific,
     specificPorts |-> list, commonPortsOnly |-> common]

PsInputs ==
    { PortRequest(Range1To1000, FALSE, Empty, TRUE),
      PortRequest(Range1To1000, FALSE, Empty, FALSE),
      PortRequest(Range1To1000, TRUE, List22_80_443, FALSE),
      PortRequest(Range1To1000, TRUE, List22_80_443, TRUE),
      PortRequest(Range1To1000, TRUE, ListWithBlanks, FALSE),
      PortRequest(Range1To1000, TRUE, List31Ports, FALSE),
      PortRequest(Range1To1000, TRUE, Empty, FALSE),
      PortRequest(List22_80_443, FALSE, Empty, FALSE),
      PortRequest(RangeTopOfSpace, FALSE, Empty, FALSE),
      PortRequest(RangeBeyondSpace, FALSE, Empty, FALSE),
      PortRequest(RangeBackwards, FALSE, Empty, FALSE),
      PortRequest(RangesOverlapping, FALSE, Empty, FALSE),
      PortRequest(RangeFractional, FALSE, Empty, FALSE) }

\* The port p as a JavaScript number.
Port(p) == JsNum(p)

\* The list scanned when commonPortsOnly is set.
commonPorts ==
    [i \in 1 .. 22 |->
        Port(<< 20, 21, 22, 23, 25, 53, 80, 110, 111, 135, 139, 143, 443, 445, 993, 995, 1723, 3306, 3389, 5900, 8080, 8443 >>[i])]

serviceMap ==
    [p \in { Port(21), Port(22), Port(23), Port(25), Port(53), Port(80), Port(110), Port(143), Port(443), Port(445), Port(3306), Port(3389), Port(5432), Port(8080), Port(8443) } |->
        CASE p = Port(21) -> "ftp"
          [] p = Port(22) -> "ssh"
          [] p = Port(23) -> "telnet"
          [] p = Port(25) -> "smtp"
          [] p = Port(53) -> "dns"
          [] p = Port(80) -> "http"
          [] p = Port(110) -> "pop3"
          [] p = Port(143) -> "imap"
          [] p = Port(443) -> "https"
          [] p = Port(445) -> "smb"
          [] p = Port(3306) -> "mysql"
          [] p = Port(3389) -> "rdp"
          [] p = Port(5432) -> "postgresql"
          [] p = Port(8080) -> "http-proxy"
          [] p = Port(8443) -> "https-alt"]

\* The services that have an entry in bannerMap (three banners each).
bannerServices == {"ssh", "http", "https", "ftp", "smtp", "mysql"}
Banner(service, k) == <<service, k>>

Undefined == "undefined"

\* specificPorts.split(',').map(p => parseInt(p.trim()))
\*              .filter(p => !isNaN(p) && p > 0 && p < 65536)
ParseSpecificPorts(specificPorts) ==
    LET items  == split(specificPorts, ",")
        parsed == [i \in DOMAIN items |-> parseInt(trim(items[i]))]
        valid(p) == ~isNaN(p) /\ JsGt(p, 0) /\ JsLt(p, Port(65536))
    IN SelectSeq(parsed, valid)

\* for (let i = start; i <= safeEnd; i++) portsToScan.push(i), with
\* safeEnd = Math.min(end, start + 100).
RangePorts(start, end) ==
    LET safeEnd == MathMin(end, start + Port(100))
    IN IF safeEnd < start THEN <<>>
       ELSE [k \in 1 .. ((safeEnd - start) \div Unit) + 1 |->
                start + (k - 1) * Unit]

\* The ports one element of portRange.split(',') adds to portsToScan.
ParseRange(range) ==
    LET trimmedRange == trim(range)
    IN IF includes(trimmedRange, Dash)
       THEN LET parts == split(trimmedRange, "-")
                start == Number(parts[1])
                end   == Number(parts[2])
            IN IF ~isNaN(start) /\ ~isNaN(end) /\ JsGt(start, 0)
                  /\ JsLt(end, Port(65536))
               THEN RangePorts(start, end)
               ELSE <<>>
       ELSE LET port == parseInt(trimmedRange)
            IN IF ~isNaN(port) /\ JsGt(port, 0) /\ JsLt(port, Port(65536))
               THEN <<port>>
               ELSE <<>>

RECURSIVE ParseRanges(_)
ParseRanges(ranges) ==
    IF ranges = <<>> THEN <<>>
    ELSE ParseRange(Head(ranges)) \o ParseRanges(Tail(ranges))

\* The three ways portsToScan is defined (lines 837-872).
ExpandPorts(args) ==
    IF args.commonPortsOnly THEN commonPorts
    ELSE IF args.scanSpecificPorts /\ args.specificPorts # <<>>
    THEN ParseSpecificPorts(args.specificPorts)
    ELSE ParseRanges(split(args.portRange, ","))

\* shuffle(array): any permutation of a short array; of a longer one, its
\* rotations.
Shuffles(a) ==
    IF Len(a) = 0 THEN {<<>>}
    ELSE IF Len(a) <= MaxShuffleAll
    THEN {[i \in DOMAIN a |-> a[p[i]]] : p \in Permutations(DOMAIN a)}
    ELSE {[i \in DOMAIN a |-> a[((i + k - 1) % Len(a)) + 1]] :
              k \in 0 .. Len(a) - 1}

\* results.sort((a, b) => a.port - b.port): ascending by port, entries of
\* equal port in their former order.
SortByPort(rs) ==
    LET rank(i) == Cardinality({j \in DOMAIN rs : rs[j].port < rs[i].port})
                   + Cardinality({j \in 1 .. i : rs[j].port = rs[i].port})
    IN [k \in DOMAIN rs |-> rs[CHOOSE i \in DOMAIN rs : rank(i) = k]]

maxResults == 30

\* totalResults = Math.min(portsToScan.length, 30)
TotalResults(ports) == MathMin(Len(ports), maxResults)

\* The entry for shuffledPorts[i]: the first openPorts are open, the next
\* filteredPorts filtered, the rest closed.  `unknown` is what the draw
\* Math.random() > 0.7 gives a port without a known service, `pick` the
\* banner randomChoice selects.
PortEntry(port, i, openPorts, filteredPorts, version, unknown, pick) ==
    IF i <= openPorts
    THEN LET service == IF port \in DOMAIN serviceMap THEN serviceMap[port]
                        ELSE unknown
         IN [port |-> port, state |-> "open", service |-> service,
             banner |-> IF version /\ service \in bannerServices
                        THEN Banner(service, pick) ELSE <<>>]
    ELSE [port |-> port,
          state |-> IF i <= openPorts + filteredPorts THEN "filtered"
                    ELSE "closed",
          service |-> Undefined, banner |-> <<>>]

\* The results array before and after the sort (lines 874-929).
ScanResults(ports, shuffledPorts, version, unknown, pick) ==
    LET totalResults  == TotalResults(ports)
        openPorts     == FloorMul(totalResults, 3, 10)
        filteredPorts == FloorMul(totalResults - openPorts, 4, 10)
    IN SortByPort([i \in 1 .. totalResults |->
                      PortEntry(shuffledPorts[i], i, openPorts, filteredPorts,
                                version, unknown, pick)])

PsOff ==
    /\ psPc = "off"
    /\ psArgs = PortRequest(<<>>, FALSE, <<>>, FALSE)
    /\ scanVersion = FALSE
    /\ portsToScan = <<>>
    /\ psResults = <<>>

PsCall ==
    /\ psPc = "call"
    /\ psArgs \in PsInputs
    /\ scanVersion \in BOOLEAN
    /\ portsToScan = <<>>
    /\ psResults = <<>>

\* Lines 837-872: portsToScan is built from the port specification.
PsExpandPorts ==
    /\ psPc = "call"
    /\ portsToScan' = ExpandPorts(psArgs)
    /\ psPc' = "scan"
    /\ UNCHANGED <<psArgs, scanVersion, psResults>>
    /\ UNCHANGED <<orchVars, sdVars, cdVars, tdVars, gwVars>>

\* Lines 874-929: the ports are shuffled, the first totalResults of them
\* become entries, the entries are sorted and returned.
PsScan ==
    /\ psPc = "scan"
    /\ \E shuffledPorts \in Shuffles(portsToScan) :
       \E unknown \in {"unknown", Undefined} :
       \E pick \in 1 .. 3 :
           psResults' = ScanResults(portsToScan, shuffledPorts, scanVersion,
                                    unknown, pick)
    /\ psPc' = "done"
    /\ UNCHANGED <<psArgs, scanVersion, portsToScan>>
    /\ UNCHANGED <<orchVars, sdVars, cdVars, tdVars, gwVars>>

\* ====================================================== content discovery
\* simulateContentDiscovery(url, wordlistType, recursive, fileExtensions,
\* threads, statusCodesToInclude).  A path is the sequence of the pieces
\* its template literal joins.
commonPaths ==
    << "/admin", "/login", "/api", "/backup", "/config",
       "/dashboard", "/dev", "/docs", "/images", "/includes",
       "/js", "/log", "/logs", "/old", "/private",
       "/robots.txt", "/sitemap.xml", "/temp", "/test", "/uploads",
       "/v1", "/v2", "/wp-admin", "/wp-content", "/administrator",
       "/.git", "/.env", "/phpinfo.php", "/info.php", "/server-status",
       "/console", "/api/v1", "/api/users", "/backup.zip", "/config.json",
       "/debug", "/.htpasswd", "/assets" >>

contentTypes == <<"text/html", "application/json", "text/plain",
                  "application/xml", "application/javascript", "text/css",
                  "application/pdf">>

subDirs == <<"config", "includes", "old", "backup", "test">>

\* The status codes of a subdirectory entry: randomChoice([200, 403, 301]).
subDirStatusCodes == <<JsNum(200), JsNum(403), JsNum(301)>>

\* The requests a client may send.
Codes200     == <<"2", "0", "0">>
Codes200_404 == <<"2", "0", "0", ",", "4", "0", "4">>
Codes301_403 == <<"3", "0", "1", ",", " ", "4", "0", "3">>
ExtPhp       == <<"p", "h", "p">>
ExtPhpHtml   == <<"p", "h", "p", ",", " ", "h", "t", "m", "l">>

CdInputs ==
    [wordlistType : {"default"}, recursive : BOOLEAN,
     fileExtensions : {Empty, ExtPhp, ExtPhpHtml},
     statusCodesToInclude : {Codes200, Codes200_404, Codes301_403}]
    \cup
    [wordlistType : {"common"}, recursive : {FALSE},
     fileExtensions : {Empty, ExtPhp, ExtPhpHtml},
     statusCodesToInclude : {Codes200, Codes200_404, Codes301_403}]

\* statusCodesToInclude.split(',').map(code => parseInt(code.trim()))
StatusCodes(statusCodesToInclude) ==
    LET items == split(statusCodesToInclude, ",")
    IN [i \in DOMAIN items |-> parseInt(trim(items[i]))]

\* fileExtensions ? fileExtensions.split(',').map(ext => ext.trim()) : ['']
Extensions(fileExtensions) ==
    IF fileExtensions # <<>>
    THEN LET items == split(fileExtensions, ",")
         IN [i \in DOMAIN items |-> trim(items[i])]
    ELSE << <<>> >>

\* Math.floor(Math.random() * n): 0 .. n - 1, of which the first ones are
\* drawn.
RandomBelow(n) == 0 .. Min(n - 1, MaxDraw)

\* randomChoice(array): one of its elements, of which the first ones are
\* drawn.
RandomChoices(array) == {array[i] : i \in 1 .. Min(Len(array), MaxChoice)}

\* shuffle(commonPaths): of its permutations, some rotations are drawn.
PathShuffles ==
    {[i \in DOMAIN commonPaths |->
         commonPaths[((i + k - 1) % Len(commonPaths)) + 1]] :
        k \in 0 .. MaxRotation}

\* The switch on wordlistType: the base and the span of the draw.
ResultCountBase(wordlistType) ==
    CASE wordlistType = "large"  -> 10
      [] wordlistType = "common" -> 5
      [] OTHER                   -> 3
ResultCountSpan(wordlistType) ==
    CASE wordlistType = "large"  -> 15
      [] wordlistType = "common" -> 10
      [] OTHER                   -> 5

\* if (recursive) resultCount += Math.floor(resultCount * 0.5)
WithRecursive(count, recursive) ==
    IF recursive THEN count + FloorMul(count, 5, 10) ELSE count

\* array.slice(0, n)
sliceTo(array, n) == SubSeq(array, 1, Min(Len(array), n))

\* statusCodes.length > 0 ? statusCodes : [...]
CodesOr(statusCodes, others) ==
    IF Len(statusCodes) > 0 THEN statusCodes ELSE others

\* The switch on ext; a drawn content type for any other extension.
ContentTypeOf(ext, drawn) ==
    CASE ext = <<"h", "t", "m", "l">> -> "text/html"
      [] ext = <<"j", "s">>           -> "application/javascript"
      [] ext = <<"j", "s", "o", "n">> -> "application/json"
      [] ext = <<"x", "m", "l">>      -> "application/xml"
      [] ext = <<"t", "x", "t">>      -> "text/plain"
      [] ext = <<"p", "h", "p">>      -> "text/html"
      [] OTHER                        -> drawn

\* The entry of a directory, of its subdirectory and of a file.
\* contentLength is a drawn number or undefined.
DirEntry(dir, statusCode) ==
    [path |-> <<dir>>, statusCode |-> statusCode,
     contentType |-> IF JsLt(statusCode, JsNum(300)) THEN "text/html"
                     ELSE Undefined,
     contentLength |-> IF JsLt(statusCode, JsNum(300)) THEN "number"
                       ELSE Undefined]

SubDirEntry(dir, subDir, statusCode) ==
    [path |-> <<dir, "/", subDir>>, statusCode |-> statusCode,
     contentType |-> "text/html", contentLength |-> "number"]

FileEntry(file, ext, statusCode, contentType) ==
    [path |-> <<file, ".">> \o ext, statusCode |-> statusCode,
     contentType |-> IF JsLt(statusCode, JsNum(300)) THEN contentType
                     ELSE Undefined,
     contentLength |-> IF JsLt(statusCode, JsNum(300)) THEN "number"
                       ELSE Undefined]

NoCdArgs == [wordlistType |-> "", recursive |-> FALSE,
             fileExtensions |-> <<>>, statusCodesToInclude |-> <<>>]

CdOff ==
    /\ cdPc = "off"
    /\ cdArgs = NoCdArgs
    /\ resultCount = 0
    /\ cdPaths = <<>>
    /\ cdI = 0
    /\ cdJ = 0
    /\ cdResults = <<>>

CdCall ==
    /\ cdPc = "call"
    /\ cdArgs \in CdInputs
    /\ resultCount = 0
    /\ cdPaths = <<>>
    /\ cdI = 0
    /\ cdJ = 0
    /\ cdResults = <<>>

\* Lines 620-696: the parameters are parsed, resultCount is drawn and
\* directories = shuffle(commonPaths).slice(0, resultCount/2), where slice
\* drops the fraction of resultCount/2.
CdBegin ==
    /\ cdPc = "call"
    /\ \E draw \in RandomBelow(ResultCountSpan(cdArgs.wordlistType)) :
       \E shuffled \in PathShuffles :
         LET count == WithRecursive(
                          draw + ResultCountBase(cdArgs.wordlistType),
                          cdArgs.recursive)
         IN /\ resultCount' = count
            /\ cdPaths' = sliceTo(shuffled, count \div 2)
    /\ cdI' = 1
    /\ cdPc' = "directories"
    /\ UNCHANGED <<cdArgs, cdJ, cdResults>>
    /\ UNCHANGED <<orchVars, sdVars, psVars, tdVars, gwVars>>

\* Lines 697-719: one iteration of the loop over directories.  The entry
\* of the directory is pushed, and with recursive and a draw above 0.7 the
\* entry of a subdirectory.
CdDirectory ==
    /\ cdPc = "directories"
    /\ cdI <= Len(cdPaths)
    /\ \E statusCode \in RandomChoices(
             CodesOr(StatusCodes(cdArgs.statusCodesToInclude),
                     <<JsNum(200), JsNum(301), JsNum(302), JsNum(403)>>)) :
       \E addSubDir \in {FALSE, cdArgs.recursive} :
       \E subDir \in RandomChoices(subDirs) :
       \E subCode \in RandomChoices(subDirStatusCodes) :
         cdResults' =
           IF addSubDir
           THEN cdResults \o <<DirEntry(cdPaths[cdI], statusCode),
                               SubDirEntry(cdPaths[cdI], subDir, subCode)>>
           ELSE Append(cdResults, DirEntry(cdPaths[cdI], statusCode))
    /\ cdI' = cdI + 1
    /\ UNCHANGED <<cdPc, cdArgs, resultCount, cdPaths, cdJ>>
    /\ UNCHANGED <<orchVars, sdVars, psVars, tdVars, gwVars>>

\* Lines 721-722: files = shuffle(commonPaths).slice(0, resultCount/2).
CdFilesBegin ==
    /\ cdPc = "directories"
    /\ cdI > Len(cdPaths)
    /\ \E shuffled \in PathShuffles :
         cdPaths' = sliceTo(shuffled, resultCount \div 2)
    /\ cdI' = 1
    /\ cdJ' = 1
    /\ cdPc' = "files"
    /\ UNCHANGED <<cdArgs, resultCount, cdResults>>
    /\ UNCHANGED <<orchVars, sdVars, psVars, tdVars, gwVars>>

\* Lines 723-748: one iteration of the inner loop over extensions: the
\* entry of file.ext is pushed unless the draw is above 0.6 or ext is ''.
CdFile ==
    /\ cdPc = "files"
    /\ cdI <= Len(cdPaths)
    /\ LET extensions == Extensions(cdArgs.fileExtensions)
           ext        == extensions[cdJ]
       IN /\ \E skip \in {TRUE, ext = <<>>} :
             \E statusCode \in RandomChoices(
                 CodesOr(StatusCodes(cdArgs.statusCodesToInclude),
                         <<JsNum(200), JsNum(404), JsNum(403)>>)) :
             \E drawn \in RandomChoices(contentTypes) :
               cdResults' =
                 IF skip THEN cdResults
                 ELSE Append(cdResults,
                             FileEntry(cdPaths[cdI], ext, statusCode,
                                       ContentTypeOf(ext, drawn)))
          /\ cdI' = IF cdJ < Len(extensions) THEN cdI ELSE cdI + 1
          /\ cdJ' = IF cdJ < Len(extensions) THEN cdJ + 1 ELSE 1
    /\ UNCHANGED <<cdPc, cdArgs, resultCount, cdPaths>>
    /\ UNCHANGED <<orchVars, sdVars, psVars, tdVars, gwVars>>

\* Line 751: return results.slice(0, resultCount).
CdReturn ==
    /\ cdPc = "files"
    /\ cdI > Len(cdPaths)
    /\ cdResults' = sliceTo(cdResults, resultCount)
    /\ cdPc' = "done"
    /\ UNCHANGED <<cdArgs, resultCount, cdPaths, cdI, cdJ>>
    /\ UNCHANGED <<orchVars, sdVars, psVars, tdVars, gwVars>>

\* ===================================================== technology detection
\* simulateTechDetection(url).  Technology names and URLs are sequences of
\* characters (hostname.includes and the icon path are computed); category
\* names and versions are only compared and stay strings.
categories ==
    << "Web Servers",
       "Programming Languages",
       "JavaScript Frameworks",
       "CMS",
       "Analytics",
       "Operating Systems",
       "Caching",
       "Reverse Proxies",
       "Security",
       "JavaScript Libraries",
       "Web Frameworks",
       "Databases",
       "Payment Processors",
       "CI/CD",
       "Hosting" >>

\* techByCategory: the technologies of each category, with their versions.
Tech(name, versions) == [name |-> name, versions |-> versions]

techByCategory ==
    ("Web Servers" :> <<
        Tech(<<"A", "p", "a", "c", "h", "e">>,
             <<"2.4.41", "2.4.38", "2.4.29">>),
        Tech(<<"N", "g", "i", "n", "x">>,
             <<"1.18.0", "1.14.0", "1.17.1">>),
        Tech(<<"M", "i", "c", "r", "o", "s", "o", "f", "t", " ", "I", "I", "S">>,
             <<"10.0", "8.5", "7.5">>),
        Tech(<<"L", "i", "t", "e", "S", "p", "e", "e", "d">>,
             <<"5.4.1", "5.3", "4.5.2">>) >>)
 @@ ("Programming Languages" :> <<
        Tech(<<"P", "H", "P">>,
             <<"7.4.3", "8.0.0", "5.6.40">>),
        Tech(<<"N", "o", "d", "e", ".", "j", "s">>,
             <<"14.15.0", "16.3.0", "12.18.3">>),
        Tech(<<"P", "y", "t", "h", "o", "n">>,
             <<"3.9.5", "3.8.10", "3.7.11">>),
        Tech(<<"R", "u", "b", "y">>,
             <<"3.0.0", "2.7.2", "2.6.6">>) >>)
 @@ ("JavaScript Frameworks" :> <<
        Tech(<<"R", "e", "a", "c", "t">>,
             <<"17.0.2", "16.13.1", "18.0.0">>),
        Tech(<<"A", "n", "g", "u", "l", "a", "r">>,
             <<"12.0.0", "11.2.14", "13.0.0">>),
        Tech(<<"V", "u", "e", ".", "j", "s">>,
             <<"3.0.0", "2.6.12", "3.2.1">>),
        Tech(<<"S", "v", "e", "l", "t", "e">>,
             <<"3.44.0", "3.38.2", "3.24.0">>) >>)
 @@ ("CMS" :> <<
        Tech(<<"W", "o", "r", "d", "P", "r", "e", "s", "s">>,
             <<"5.8.1", "5.7.2", "5.9.0">>),
        Tech(<<"D", "r", "u", "p", "a", "l">>,
             <<"9.2.6", "8.9.19", "7.84">>),
        Tech(<<"J", "o", "o", "m", "l", "a">>,
             <<"4.0.3", "3.10.0", "3.9.28">>),
        Tech(<<"M", "a", "g", "e", "n", "t", "o">>,
             <<"2.4.3", "2.3.7", "2.4.0">>) >>)
 @@ ("Analytics" :> <<
        Tech(<<"G", "o", "o", "g", "l", "e", " ", "A", "n", "a", "l", "y", "t", "i", "c", "s">>,
             <<"GA4", "Universal Analytics">>),
        Tech(<<"M", "a", "t", "o", "m", "o">>,
             <<"4.6.2", "4.5.0", "4.0.0">>),
        Tech(<<"H", "o", "t", "J", "a", "r">>,
             <<>>),
        Tech(<<"M", "i", "x", "p", "a", "n", "e", "l">>,
             <<>>) >>)
 @@ ("Operating Systems" :> <<
        Tech(<<"U", "b", "u", "n", "t", "u">>,
             <<"20.04", "18.04", "22.04">>),
        Tech(<<"C", "e", "n", "t", "O", "S">>,
             <<"8", "7", "6">>),
        Tech(<<"W", "i", "n", "d", "o", "w", "s", " ", "S", "e", "r", "v", "e", "r">>,
             <<"2019", "2016", "2012 R2">>),
        Tech(<<"D", "e", "b", "i", "a", "n">>,
             <<"11", "10", "9">>) >>)
 @@ ("Caching" :> <<
        Tech(<<"R", "e", "d", "i", "s">>,
             <<"6.2.5", "6.0.9", "5.0.7">>),
        Tech(<<"V", "a", "r", "n", "i", "s", "h">>,
             <<"6.6", "6.0", "4.1">>),
        Tech(<<"M", "e", "m", "c", "a", "c", "h", "e", "d">>,
             <<"1.6.9", "1.5.22", "1.4.25">>) >>)
 @@ ("Reverse Proxies" :> <<
        Tech(<<"C", "l", "o", "u", "d", "f", "l", "a", "r", "e">>,
             <<>>),
        Tech(<<"N", "g", "i", "n", "x">>,
             <<"1.18.0", "1.14.0", "1.17.1">>),
        Tech(<<"H", "A", "P", "r", "o", "x", "y">>,
             <<"2.4.0", "2.2.14", "2.0.0">>) >>)
 @@ ("Security" :> <<
        Tech(<<"M", "o", "d", "S", "e", "c", "u", "r", "i", "t", "y">>,
             <<"3.0.4", "2.9.3">>),
        Tech(<<"L", "e", "t", "'", "s", " ", "E", "n", "c", "r", "y", "p", "t">>,
             <<>>),
        Tech(<<"S", "u", "c", "u", "r", "i">>,
             <<>>),
        Tech(<<"C", "l", "o", "u", "d", "f", "l", "a", "r", "e", " ", "W", "A", "F">>,
             <<>>) >>)
 @@ ("JavaScript Libraries" :> <<
        Tech(<<"j", "Q", "u", "e", "r", "y">>,
             <<"3.6.0", "3.5.1", "2.2.4", "1.12.4">>),
        Tech(<<"L", "o", "d", "a", "s", "h">>,
             <<"4.17.21", "4.17.20", "4.17.15">>),
        Tech(<<"M", "o", "m", "e", "n", "t", ".", "j", "s">>,
             <<"2.29.1", "2.29.0", "2.24.0">>),
        Tech(<<"D", "3", ".", "j", "s">>,
             <<"7.0.0", "6.7.0", "5.16.0">>) >>)
 @@ ("Web Frameworks" :> <<
        Tech(<<"B", "o", "o", "t", "s", "t", "r", "a", "p">>,
             <<"5.1.3", "4.6.0", "3.4.1">>),
        Tech(<<"T", "a", "i", "l", "w", "i", "n", "d", " ", "C", "S", "S">>,
             <<"2.2.16", "2.0.4", "3.0.0">>),
        Tech(<<"M", "a", "t", "e", "r", "i", "a", "l", " ", "U", "I">>,
             <<"4.12.3", "5.0.0", "4.11.4">>),
        Tech(<<"B", "u", "l", "m", "a">>,
             <<"0.9.3", "0.9.2", "0.9.1">>) >>)
 @@ ("Databases" :> <<
        Tech(<<"M", "y", "S", "Q", "L">>,
             <<"8.0.26", "5.7.35", "5.6.51">>),
        Tech(<<"P", "o", "s", "t", "g", "r", "e", "S", "Q", "L">>,
             <<"14.0", "13.4", "12.8">>),
        Tech(<<"M", "o", "n", "g", "o", "D", "B">>,
             <<"5.0.3", "4.4.9", "4.2.15">>),
        Tech(<<"M", "a", "r", "i", "a", "D", "B">>,
             <<"10.6.4", "10.5.12", "10.4.21">>) >>)
 @@ ("Payment Processors" :> <<
        Tech(<<"S", "t", "r", "i", "p", "e">>,
             <<>>),
        Tech(<<"P", "a", "y", "P", "a", "l">>,
             <<>>),
        Tech(<<"S", "q", "u", "a", "r", "e">>,
             <<>>),
        Tech(<<"B", "r", "a", "i", "n", "t", "r", "e", "e">>,
             <<>>) >>)
 @@ ("CI/CD" :> <<
        Tech(<<"J", "e", "n", "k", "i", "n", "s">>,
             <<"2.303.1", "2.289.3", "2.277.4">>),
        Tech(<<"G", "i", "t", "H", "u", "b", " ", "A", "c", "t", "i", "o", "n", "s">>,
             <<>>),
        Tech(<<"C", "i", "r", "c", "l", "e", "C", "I">>,
             <<>>),
        Tech(<<"T", "r", "a", "v", "i", "s", "C", "I">>,
             <<>>) >>)
 @@ ("Hosting" :> <<
        Tech(<<"A", "W", "S">>,
             <<>>),
        Tech(<<"G", "C", "P">>,
             <<>>),
        Tech(<<"A", "z", "u", "r", "e">>,
             <<>>),
        Tech(<<"D", "i", "g", "i", "t", "a", "l", "O", "c", "e", "a", "n">>,
             <<>>),
        Tech(<<"H", "e", "r", "o", "k", "u">>,
             <<>>) >>)

\* The names the code writes as literals.
WordPress == <<"W", "o", "r", "d", "P", "r", "e", "s", "s">>
PHP       == <<"P", "H", "P">>
Shopify   == <<"S", "h", "o", "p", "i", "f", "y">>
Wix       == <<"W", "i", "x">>
jQuery    == <<"j", "Q", "u", "e", "r", "y">>

\* The URLs of the modelled calls: a host without a pattern and one for
\* each hostname pattern.
TdInputs ==
    { <<"h", "t", "t", "p", "s", ":", "/", "/", "e", "x", "a", "m", "p", "l", "e", ".", "c", "o", "m", "/">>,
      <<"h", "t", "t", "p", "s", ":", "/", "/", "w", "p", ".", "e", "x", "a", "m", "p", "l", "e", ".", "c", "o", "m", "/">>,
      <<"h", "t", "t", "p", "s", ":", "/", "/", "s", "h", "o", "p", ".", "m", "y", "s", "h", "o", "p", "i", "f", "y", ".", "c", "o", "m", "/">>,
      <<"h", "t", "t", "p", "s", ":", "/", "/", "u", "s", "e", "r", ".", "w", "i", "x", ".", "c", "o", "m", "/">> }

\* new URL(url).hostname, for the URLs above: what stands between "//" and
\* the next "/".
Hostname(url) ==
    LET start == (CHOOSE i \in 1 .. Len(url) - 1 :
                      /\ url[i] = "/" /\ url[i + 1] = "/"
                      /\ \A j \in 1 .. i - 1 : url[j] # "/") + 2
        rest  == SubSeq(url, start, Len(url))
        stop  == IF \E i \in DOMAIN rest : rest[i] = "/"
                 THEN CHOOSE i \in DOMAIN rest :
                          /\ rest[i] = "/"
                          /\ \A j \in 1 .. i - 1 : rest[j] # "/"
                 ELSE Len(rest) + 1
    IN SubSeq(rest, 1, stop - 1)

\* s.toLowerCase(), on the letters of the technology names.
UpperCase == <<"A", "B", "C", "D", "E", "F", "G", "H", "I", "J", "K", "L", "M",
               "N", "O", "P", "Q", "R", "S", "T", "U", "V", "W", "X", "Y", "Z">>
LowerCase == <<"a", "b", "c", "d", "e", "f", "g", "h", "i", "j", "k", "l", "m",
               "n", "o", "p", "q", "r", "s", "t", "u", "v", "w", "x", "y", "z">>
toLowerCase(s) ==
    [i \in DOMAIN s |->
        IF \E k \in DOMAIN UpperCase : UpperCase[k] = s[i]
        THEN LowerCase[CHOOSE k \in DOMAIN UpperCase : UpperCase[k] = s[i]]
        ELSE s[i]]

\* s.replace(/\s+/g, '-'): every run of spaces becomes one dash.
replaceSpaces(s) ==
    LET keep == SelectSeq([i \in DOMAIN s |-> i],
                          LAMBDA i : s[i] # " " \/ i = 1 \/ s[i - 1] # " ")
    IN [k \in DOMAIN keep |-> IF s[keep[k]] = " " THEN "-" ELSE s[keep[k]]]

\* `/icons/${tech.name.toLowerCase().replace(/\s+/g, '-')}.svg`
Icon(name) ==
    <<"/", "i", "c", "o", "n", "s", "/">> \o replaceSpaces(toLowerCase(name))
        \o <<".", "s", "v", "g">>

\* numTechnologies = Math.floor(Math.random() * 10) + 5: 5 .. 14, of which
\* the first ones are drawn.
NumTechnologies == 5 .. Min(14, MaxTechnologies)

\* randomChoice(tech.versions), or undefined for a technology without
\* versions; of the versions the first ones are drawn.
VersionChoices(versions) ==
    IF Len(versions) > 0
    THEN {versions[i] : i \in 1 .. Min(Len(versions), MaxVersionChoice)}
    ELSE {Undefined}

\* Math.floor(Math.random() * span) + base
Confidences(span, base) == {draw + base : draw \in RandomBelow(span)}

Detected(name, category, version, confidence) ==
    [name |-> name, category |-> category, version |-> version,
     confidence |-> confidence]

\* detectedTechnologies.some(t => t.category === category)
someCategory(detected, category) ==
    \E i \in DOMAIN detected : detected[i].category = category

\* detectedTechnologies.some(t => t.name === name)
someName(detected, name) ==
    \E i \in DOMAIN detected : detected[i].name = name

\* techByCategory[category].find(t => t.name === name)?.versions || []
VersionsOf(category, name) ==
    LET techs == techByCategory[category]
    IN IF \E i \in DOMAIN techs : techs[i].name = name
       THEN techs[CHOOSE i \in DOMAIN techs :
                      /\ techs[i].name = name
                      /\ \A j \in 1 .. i - 1 : techs[j].name # name].versions
       ELSE <<>>

\* Lines 1061-1084: the technologies pushed for a hostname pattern.
HostnameTechnologies(hostname) ==
    IF includes(hostname, <<"w", "o", "r", "d", "p", "r", "e", "s", "s">>)
       \/ includes(hostname, <<"w", "p">>)
    THEN {<<Detected(WordPress, "CMS", v, c1),
            Detected(PHP, "Programming Languages", w, c2)>> :
              v \in RandomChoices(VersionsOf("CMS", WordPress)),
              w \in RandomChoices(<<"7.4.3", "8.0.0", "5.6.40">>),
              c1 \in Confidences(20, 80), c2 \in Confidences(30, 70)}
    ELSE IF includes(hostname, <<"s", "h", "o", "p", "i", "f", "y">>)
    THEN {<<[name |-> Shopify, category |-> "CMS", confidence |-> c]>> :
              c \in Confidences(10, 90)}
    ELSE IF includes(hostname, <<"w", "i", "x">>)
    THEN {<<[name |-> Wix, category |-> "CMS", confidence |-> c]>> :
              c \in Confidences(10, 90)}
    ELSE {<<>>}

\* detectedTechnologies.sort((a, b) => b.confidence - a.confidence):
\* descending by confidence, entries of equal confidence in their former
\* order.
SortByConfidence(ts) ==
    LET rank(i) ==
            Cardinality({j \in DOMAIN ts : ts[j].confidence > ts[i].confidence})
            + Cardinality({j \in 1 .. i : ts[j].confidence = ts[i].confidence})
    IN [k \in DOMAIN ts |-> ts[CHOOSE i \in DOMAIN ts : rank(i) = k]]

\* detectedTechnologies.map(tech => ({...tech, icon: ...}))
WithIcons(ts) ==
    [k \in DOMAIN ts |->
        [f \in DOMAIN ts[k] \cup {"icon"} |->
            IF f = "icon" THEN Icon(ts[k].name) ELSE ts[k][f]]]

\* No call of the detection is modelled.
TdOff ==
    /\ tdPc = "off"
    /\ tdUrl = <<>>
    /\ numTechnologies = 0
    /\ selectedCategories = <<>>
    /\ tdI = 0
    /\ detectedTechnologies = <<>>
    /\ tdResult = <<>>

TdCall ==
    /\ tdPc = "call"
    /\ tdUrl \in TdInputs
    /\ numTechnologies = 0
    /\ selectedCategories = <<>>
    /\ tdI = 0
    /\ detectedTechnologies = <<>>
    /\ tdResult = <<>>

\* Lines 934-1087: numTechnologies is drawn, the technologies of the
\* hostname pattern are pushed and the categories selected.
TdBegin ==
    /\ tdPc = "call"
    /\ \E n \in NumTechnologies :
       \E shuffled \in Shuffles(categories) :
       \E pushed \in HostnameTechnologies(Hostname(tdUrl)) :
         /\ numTechnologies' = n
         /\ detectedTechnologies' = pushed
         /\ selectedCategories' = sliceTo(shuffled, Min(Len(categories), n))
    /\ tdI' = 1
    /\ tdPc' = "categories"
    /\ UNCHANGED <<tdUrl, tdResult>>
    /\ UNCHANGED <<orchVars, sdVars, psVars, cdVars, gwVars>>

\* Lines 1089-1111: one iteration of the loop over selectedCategories that
\* does not break: a category already detected is skipped, otherwise one
\* of its technologies is pushed.
TdCategory ==
    /\ tdPc = "categories"
    /\ tdI <= Len(selectedCategories)
    /\ Len(detectedTechnologies) < numTechnologies
    /\ LET category       == selectedCategories[tdI]
           availableTechs == techByCategory[category]
       IN IF someCategory(detectedTechnologies, category)
             \/ Len(availableTechs) = 0
          THEN UNCHANGED detectedTechnologies
          ELSE \E tech \in RandomChoices(availableTechs) :
               \E version \in VersionChoices(tech.versions) :
               \E confidence \in Confidences(40, 60) :
                 detectedTechnologies' =
                     Append(detectedTechnologies,
                            Detected(tech.name, category, version, confidence))
    /\ tdI' = tdI + 1
    /\ UNCHANGED <<tdPc, tdUrl, numTechnologies, selectedCategories, tdResult>>
    /\ UNCHANGED <<orchVars, sdVars, psVars, cdVars, gwVars>>

\* (a detection without the jQuery check of lines 1113-1124)
TdJQuerySkipped ==
    /\ tdPc = "categories"
    /\ ~(/\ tdI <= Len(selectedCategories)
         /\ Len(detectedTechnologies) < numTechnologies)
    /\ tdPc' = "fill"
    /\ UNCHANGED <<tdUrl, numTechnologies, selectedCategories, tdI, tdResult,
                   detectedTechnologies>>
    /\ UNCHANGED <<orchVars, sdVars, psVars, cdVars, gwVars>>

\* Lines 1113-1124, when the loop has ended or broken: jQuery is pushed if
\* a JavaScript framework is detected and jQuery is not.
TdJQuery ==
    /\ tdPc = "categories"
    /\ ~(/\ tdI <= Len(selectedCategories)
         /\ Len(detectedTechnologies) < numTechnologies)
    /\ IF someCategory(detectedTechnologies, "JavaScript Frameworks")
          /\ ~someName(detectedTechnologies, jQuery)
       THEN \E version \in
                  RandomChoices(VersionsOf("JavaScript Libraries", jQuery)) :
            \E confidence \in Confidences(30, 70) :
              detectedTechnologies' =
                  Append(detectedTechnologies,
                         Detected(jQuery, "JavaScript Libraries", version,
                                  confidence))
       ELSE UNCHANGED detectedTechnologies
    /\ tdPc' = "fill"
    /\ UNCHANGED <<tdUrl, numTechnologies, selectedCategories, tdI, tdResult>>
    /\ UNCHANGED <<orchVars, sdVars, psVars, cdVars, gwVars>>

\* Lines 1126-1157: one iteration of the while loop that fills up to
\* numTechnologies (a technology already detected is skipped), or, when
\* enough are detected, the sort and the returned result.
TdFill ==
    /\ tdPc = "fill"
    /\ IF Len(detectedTechnologies) < numTechnologies
       THEN /\ \E category \in RandomChoices(categories) :
               \E tech \in RandomChoices(techByCategory[category]) :
               \E version \in VersionChoices(tech.versions) :
               \E confidence \in Confidences(50, 50) :
                 detectedTechnologies' =
                     IF someName(detectedTechnologies, tech.name)
                     THEN detectedTechnologies
                     ELSE Append(detectedTechnologies,
                                 Detected(tech.name, category, version,
                                          confidence))
            /\ UNCHANGED <<tdPc, tdResult>>
       ELSE /\ tdResult' = WithIcons(SortByConfidence(detectedTechnologies))
            /\ detectedTechnologies' = SortByConfidence(detectedTechnologies)
            /\ tdPc' = "done"
    /\ UNCHANGED <<tdUrl, numTechnologies, selectedCategories, tdI>>
    /\ UNCHANGED <<orchVars, sdVars, psVars, cdVars, gwVars>>

\* No tool call is modelled.
\* ------------------------------------------- the two gateways side by side
\* The same scan is created in a MemStorage and in a DatabaseStorage, and
\* every updateScanStatus is applied to both.  The database is reachable:
\* no query of DatabaseStorage.updateScanStatus throws.
GwOff ==
    /\ memScans = <<>>
    /\ dbScans = <<>>
    /\ statusUpdates = <<>>

GwCall ==
    \E body \in {b \in Bodies : insertScanSchema(b)} :
        /\ memScans = (1 :> MemCreateScan(InsertScan(body), 1))
        /\ dbScans = (1 :> DbCreateScan(InsertScan(body), 1))
        /\ statusUpdates = <<>>

\* storage.updateScanStatus(id, status) on both gateways; id 2 is the id of
\* no stored scan.
UpdateScanStatusBoth ==
    /\ memScans # <<>>
    /\ Len(statusUpdates) < MaxUpdates
    /\ \E id \in 1 .. 2, status \in ScanStatus :
          /\ memScans' = MemUpdateScanStatus(memScans, id, status)
          /\ dbScans' = DbUpdateScanStatus(dbScans, id, status)
          /\ statusUpdates' = Append(statusUpdates, <<id, status>>)
    /\ UNCHANGED <<orchVars, sdVars, psVars, cdVars, tdVars>>

ToolsOff == SdOff /\ PsOff /\ CdOff /\ TdOff /\ GwOff

\* ================================================================= Init
InitCommon ==
    /\ scans = <<>>
    /\ scanId = 1
    /\ scanResults = <<>>
    /\ resultId = 1
    /\ reqs = <<>>
    /\ proc = <<>>
    /\ stores = <<>>
    /\ mq = <<>>
    /\ hist = <<>>
    /\ unhandled = {}

Init   == backend = "mem" /\ InitCommon /\ ToolsOff
InitDb == backend = "db" /\ InitCommon /\ ToolsOff

\* ============================================================== actions
NoCounts == [c \in {SUBDOMAIN, PARAMETER, VULNERABILITY} |-> -1]

\* POST /api/scans, up to its first await.  An invalid body is answered 400
\* at once.  A valid one calls storage.createScan: MemStorage stores the
\* scan in the call, DatabaseStorage sends the INSERT.
PostScan(body) ==
    /\ Idle
    /\ Len(reqs) < RequestBound
    /\ IF ~insertScanSchema(body)
       THEN /\ reqs' = Append(reqs, [body |-> body, code |-> 400, scan |-> NoScan])
            /\ UNCHANGED <<backend, scans, scanId, scanResults, resultId, proc,
                           stores, mq, hist, unhandled>>
       ELSE IF backend = "mem"
       THEN LET scan == MemCreateScan(InsertScan(body), scanId)
            IN /\ scans' = scans @@ (scanId :> scan)
               /\ scanId' = scanId + 1
               /\ hist' = hist @@ (scanId :> <<scan.status>>)
               /\ reqs' = Append(reqs, [body |-> body, code |-> 0, scan |-> scan])
               /\ mq' = <<HandlerTok(Len(reqs) + 1)>>
               /\ UNCHANGED <<backend, scanResults, resultId, proc, stores,
                              unhandled>>
       ELSE /\ reqs' = Append(reqs, [body |-> body, code |-> 0, scan |-> NoScan])
            /\ UNCHANGED <<backend, scans, scanId, scanResults, resultId, proc,
                           stores, mq, hist, unhandled>>
    /\ UNCHANGED toolVars

\* POST /api/scans after `await storage.createScan`: processScan is called
\* and not awaited (it runs up to its first await, the call of
\* updateScanStatus(IN_PROGRESS)), then the created scan is sent with 201.
\* A failed INSERT makes createScan throw: the handler answers 500.
HandlerResume(r) ==
    /\ r \in DOMAIN reqs
    /\ reqs[r].code = 0
    /\ Turn(HandlerTok(r))
    /\ \E ok \in Outcomes :
         IF ~ok
         THEN /\ reqs' = [reqs EXCEPT ![r].code = 500]
              /\ UNCHANGED <<backend, scans, scanId, scanResults, resultId,
                             proc, stores, mq, hist, unhandled>>
         ELSE LET data == InsertScan(reqs[r].body)
                  scan == IF backend = "mem" THEN reqs[r].scan
                          ELSE DbCreateScan(data, scanId)
                  id   == scan.id
                  s0   == IF backend = "mem" THEN scans
                          ELSE scans @@ (id :> scan)
                  h0   == IF backend = "mem" THEN hist
                          ELSE hist @@ (id :> <<scan.status>>)
                  s1   == StatusAtCall(s0, id, IN_PROGRESS)
              IN /\ scans' = s1
                 /\ hist' = HistAtCall(h0, s1, id)
                 /\ scanId' = IF backend = "mem" THEN scanId ELSE scanId + 1
                 /\ proc' = proc @@ (id :> [pc |-> "inProgress",
                                            scanType |-> data.scanType,
                                            phase |-> "none", n |-> NoCounts,
                                            findings |-> NullFindings])
                 /\ mq' = Enq(Deq, <<ProcTok(id)>>)
                 /\ reqs' = [reqs EXCEPT ![r].code = 201, ![r].scan = scan]
                 /\ UNCHANGED <<backend, scanResults, resultId, stores,
                                unhandled>>
    /\ UNCHANGED toolVars

\* processScan after `await storage.updateScanStatus(IN_PROGRESS)`: the
\* switch on scanType calls the first strategy, or, for a type without a
\* case, goes on to storage.updateScanFindings(scanId, {}).
ResumeInProgress(id) ==
    /\ id \in DOMAIN proc
    /\ proc[id].pc = "inProgress"
    /\ Turn(ProcTok(id))
    /\ \E ok \in Outcomes :
         LET s1    == StatusAtDone(scans, id, IN_PROGRESS, ok)
             h1    == HistAtDone(hist, s1, id, ok)
             first == FirstPhase(proc[id].scanType)
         IN IF first # "none"
            THEN /\ scans' = s1
                 /\ hist' = h1
                 /\ proc' = [proc EXCEPT ![id].pc = "strategy",
                                         ![id].phase = first]
                 /\ mq' = Deq
            ELSE /\ scans' = FindingsAtCall(s1, id, EmptyFindings)
                 /\ hist' = h1
                 /\ proc' = [proc EXCEPT ![id].pc = "findings",
                                         ![id].findings = EmptyFindings]
                 /\ mq' = Enq(Deq, <<ProcTok(id)>>)
    /\ UNCHANGED <<backend, scanId, scanResults, resultId, reqs, stores,
                   unhandled>>
    /\ UNCHANGED toolVars

\* The strategy processScan awaits returns n items (a timer or the last DNS
\* answer: a macrotask).  store*Results is called and not awaited: it runs
\* up to its first await, the call of createScanResult for the first item.
\* Then processScan calls the next strategy of a FULL scan, or
\* storage.updateScanFindings.
StrategyReturns(id, n) ==
    /\ id \in DOMAIN proc
    /\ proc[id].pc = "strategy"
    /\ Idle
    /\ n \in ResultCounts(proc[id].phase)
    /\ LET p     == proc[id]
           cat   == p.phase
           next  == NextPhase(p.scanType, p.phase)
           sum   == FinalFindings(p, p.phase, n)
           stTok == IF n > 0 THEN <<StoreTok(id, cat)>> ELSE <<>>
       IN /\ stores' = stores @@ (<<id, cat>> :>
                           [pc |-> IF n > 0 THEN "await" ELSE "done",
                            next |-> IF n > 0 THEN 1 ELSE 0, n |-> n])
          /\ IF n > 0 /\ backend = "mem"
             THEN /\ scanResults' = MemCreateScanResult(scanResults, resultId,
                                        InsertResult(id, cat, 1))
                  /\ resultId' = resultId + 1
             ELSE UNCHANGED <<scanResults, resultId>>
          /\ IF next # "none"
             THEN /\ proc' = [proc EXCEPT ![id].phase = next,
                                          ![id].n[cat] = n]
                  /\ mq' = Enq(mq, stTok)
                  /\ scans' = scans
             ELSE /\ proc' = [proc EXCEPT ![id].pc = "findings",
                                          ![id].n[cat] = n,
                                          ![id].findings = sum]
                  /\ mq' = Enq(mq, stTok \o <<ProcTok(id)>>)
                  /\ scans' = FindingsAtCall(scans, id, sum)
    /\ UNCHANGED <<backend, scanId, reqs, hist, unhandled>>
    /\ UNCHANGED toolVars

\* The strategy processScan awaits rejects: the catch of processScan logs
\* and calls storage.updateScanStatus(FAILED).
StrategyThrows(id) ==
    /\ id \in DOMAIN proc
    /\ proc[id].pc = "strategy"
    /\ CanThrow(proc[id].phase)
    /\ Idle
    /\ scans' = StatusAtCall(scans, id, FAILED)
    /\ hist' = HistAtCall(hist, scans', id)
    /\ proc' = [proc EXCEPT ![id].pc = "failed"]
    /\ mq' = Enq(mq, <<ProcTok(id)>>)
    /\ UNCHANGED <<backend, scanId, scanResults, resultId, reqs, stores,
                   unhandled>>
    /\ UNCHANGED toolVars

\* processScan after `await storage.updateScanFindings`: DatabaseStorage
\* catches a failed UPDATE and returns undefined, so processScan goes on
\* either way and calls storage.updateScanStatus(COMPLETED).
ResumeFindings(id) ==
    /\ id \in DOMAIN proc
    /\ proc[id].pc = "findings"
    /\ Turn(ProcTok(id))
    /\ \E ok \in Outcomes :
         /\ scans' = StatusAtCall(
                FindingsAtDone(scans, id, proc[id].findings, ok), id, COMPLETED)
         /\ hist' = HistAtCall(hist, scans', id)
    /\ proc' = [proc EXCEPT ![id].pc = "completed"]
    /\ mq' = Enq(Deq, <<ProcTok(id)>>)
    /\ UNCHANGED <<backend, scanId, scanResults, resultId, reqs, stores,
                   unhandled>>
    /\ UNCHANGED toolVars

\* processScan after `await storage.updateScanStatus(COMPLETED)`: the try
\* block ends and the task with it.
ResumeCompleted(id) ==
    /\ id \in DOMAIN proc
    /\ proc[id].pc = "completed"
    /\ Turn(ProcTok(id))
    /\ \E ok \in Outcomes :
         /\ scans' = StatusAtDone(scans, id, COMPLETED, ok)
         /\ hist' = HistAtDone(hist, scans', id, ok)
    /\ proc' = [proc EXCEPT ![id].pc = "done"]
    /\ mq' = Deq
    /\ UNCHANGED <<backend, scanId, scanResults, resultId, reqs, stores,
                   unhandled>>
    /\ UNCHANGED toolVars

\* processScan after `await storage.updateScanStatus(FAILED)` in its catch.
ResumeFailed(id) ==
    /\ id \in DOMAIN proc
    /\ proc[id].pc = "failed"
    /\ Turn(ProcTok(id))
    /\ \E ok \in Outcomes :
         /\ scans' = StatusAtDone(scans, id, FAILED, ok)
         /\ hist' = HistAtDone(hist, scans', id, ok)
    /\ proc' = [proc EXCEPT ![id].pc = "done"]
    /\ mq' = Deq
    /\ UNCHANGED <<backend, scanId, scanResults, resultId, reqs, stores,
                   unhandled>>
    /\ UNCHANGED toolVars

\* store*Results after `await storage.createScanResult` for item `next`:
\* the loop calls createScanResult for the following item, or ends.  A
\* failed INSERT makes createScanResult throw inside the un-awaited
\* store*Results: its promise rejects and nothing handles it.
StoreResume(id, cat) ==
    /\ <<id, cat>> \in DOMAIN stores
    /\ stores[<<id, cat>>].pc = "await"
    /\ Turn(StoreTok(id, cat))
    /\ \E ok \in Outcomes :
         LET st   == stores[<<id, cat>>]
             k    == st.next
             rs1  == IF backend = "db"
                     THEN DbCreateScanResult(scanResults, resultId,
                                             InsertResult(id, cat, k))
                     ELSE scanResults
             rid1 == IF backend = "db" THEN resultId + 1 ELSE resultId
         IN IF ~ok
            THEN /\ stores' = [stores EXCEPT ![<<id, cat>>].pc = "rejected"]
                 /\ unhandled' = unhandled \cup {<<id, cat>>}
                 /\ mq' = Deq
                 /\ UNCHANGED <<scanResults, resultId>>
            ELSE IF k < st.n
            THEN /\ stores' = [stores EXCEPT ![<<id, cat>>].next = k + 1]
                 /\ mq' = Enq(Deq, <<StoreTok(id, cat)>>)
                 /\ IF backend = "mem"
                    THEN /\ scanResults' = MemCreateScanResult(rs1, rid1,
                                               InsertResult(id, cat, k + 1))
                         /\ resultId' = rid1 + 1
                    ELSE /\ scanResults' = rs1
                         /\ resultId' = rid1
                 /\ UNCHANGED unhandled
            ELSE /\ stores' = [stores EXCEPT ![<<id, cat>>].pc = "done"]
                 /\ mq' = Deq
                 /\ scanResults' = rs1
                 /\ resultId' = rid1
                 /\ UNCHANGED unhandled
    /\ UNCHANGED <<backend, scans, scanId, reqs, proc, hist>>
    /\ UNCHANGED toolVars

\* A caller of the exported Storage Gateway asks for a cancellation:
\* storage.updateScanStatus(id, CANCELLED) on a scan that is not finished.
CancelScan(id) ==
    /\ id \in DOMAIN scans
    /\ scans[id].status \in {PENDING, IN_PROGRESS}
    /\ Idle
    /\ backend = "mem"
    /\ scans' = MemUpdateScanStatus(scans, id, CANCELLED)
    /\ hist' = [hist EXCEPT ![id] = Append(@, scans'[id].status)]
    /\ UNCHANGED <<backend, scanId, scanResults, resultId, reqs, proc, stores,
                   mq, unhandled>>
    /\ UNCHANGED toolVars

Categories == {SUBDOMAIN, PARAMETER, VULNERABILITY}
ScanIds    == 1 .. MaxRequests

Next ==
    \/ \E body \in Bodies : PostScan(body)
    \/ \E r \in 1 .. MaxRequests : HandlerResume(r)
    \/ \E id \in ScanIds : ResumeInProgress(id)
    \/ \E id \in ScanIds : \E n \in 0 .. 10 : StrategyReturns(id, n)
    \/ \E id \in ScanIds : StrategyThrows(id)
    \/ \E id \in ScanIds : ResumeFindings(id)
    \/ \E id \in ScanIds : ResumeCompleted(id)
    \/ \E id \in ScanIds : ResumeFailed(id)
    \/ \E id \in ScanIds : \E cat \in Categories : StoreResume(id, cat)

NextExt == Next \/ \E id \in ScanIds : CancelScan(id)

\* The program as wired: storage = new MemStorage().
Spec == Init /\ [][Next]_vars

\* The same program over DatabaseStorage, whose queries may fail.
SpecDb == InitDb /\ [][Next]_vars

\* The wired program with a caller that cancels scans through the gateway.
SpecExt == Init /\ [][NextExt]_vars

\* ------------------------------------------------ the wired program, fairly
\* The steps that continue work already started: the event loop runs every
\* continuation that is ready, and a strategy that was called ends.
Continue ==
    \/ \E r \in 1 .. MaxRequests : HandlerResume(r)
    \/ \E id \in ScanIds : ResumeInProgress(id)
    \/ \E id \in ScanIds : \E n \in 0 .. 10 : StrategyReturns(id, n)
    \/ \E id \in ScanIds : StrategyThrows(id)
    \/ \E id \in ScanIds : ResumeFindings(id)
    \/ \E id \in ScanIds : ResumeCompleted(id)
    \/ \E id \in ScanIds : ResumeFailed(id)
    \/ \E id \in ScanIds : \E cat \in Categories : StoreResume(id, cat)

SpecFair == Init /\ [][Next]_vars /\ WF_vars(Continue)

\* ------------------------------------------- the subdomain strategy alone
\* One call of performSubdomainEnumeration with any of the modelled
\* arguments and resolver answers; the orchestrator does not run.
InitSd ==
    backend = "mem" /\ InitCommon /\ SdCall /\ PsOff /\ CdOff /\ TdOff /\ GwOff

NextSd ==
    \/ SdSelectWordlist
    \/ SdDnsRecords
    \/ SdBruteForce
    \/ SdBruteForceBatch
    \/ SdPermutations
    \/ SdPermutationBatch
    \/ SdReturn

SpecSd == InitSd /\ [][NextSd]_vars

\* ------------------------------------------ the subdomain strategy, fairly
\* The same call under the scheduling of the event loop: a continuation
\* whose awaited promise has settled is eventually run.
SpecSdFair == InitSd /\ [][NextSd]_vars /\ WF_vars(NextSd)

\* ------------------------------------------------------ the port scan alone
\* One call of simulatePortScan with any of the modelled port
\* specifications.
InitPs ==
    backend = "mem" /\ InitCommon /\ SdOff /\ PsCall /\ CdOff /\ TdOff /\ GwOff

NextPs ==
    \/ PsExpandPorts
    \/ PsScan

SpecPs == InitPs /\ [][NextPs]_vars

\* ------------------------------------------------ content discovery alone
\* One call of simulateContentDiscovery with any of the modelled requests.
InitCd ==
    backend = "mem" /\ InitCommon /\ SdOff /\ PsOff /\ CdCall /\ TdOff /\ GwOff

NextCd ==
    \/ CdBegin
    \/ CdDirectory
    \/ CdFilesBegin
    \/ CdFile
    \/ CdReturn

SpecCd == InitCd /\ [][NextCd]_vars

\* ------------------------------------------- technology detection alone
\* One call of simulateTechDetection with any of the modelled URLs.
InitTd ==
    backend = "mem" /\ InitCommon /\ SdOff /\ PsOff /\ CdOff /\ TdCall /\ GwOff

NextTd ==
    \/ TdBegin
    \/ TdCategory
    \/ TdJQuery
    \/ TdFill

SpecTd == InitTd /\ [][NextTd]_vars

\* -------------------------------------------------- status updates alone
\* Any sequence of at most MaxUpdates status updates, applied to both
\* gateways.
InitGw ==
    backend = "mem" /\ InitCommon /\ SdOff /\ PsOff /\ CdOff /\ TdOff /\ GwCall

NextGw == UpdateScanStatusBoth

SpecGw == InitGw /\ [][NextGw]_vars

\* ========================================================= observations
\* GET /api/scans/:id and GET /api/scans/:id/results read the store.  An
\* HTTP request is a macrotask: it reads a state in which Idle holds.
GetScan(id) == scans[id]

\* storage.getScanResults(scanId): the results of the scan (as a set; the
\* order by timestamp is not modelled).
GetScanResults(id) ==
    {scanResults[i] : i \in {j \in DOMAIN scanResults :
                                 scanResults[j].scanId = id}}

ResultsOf(id, cat) == {f \in GetScanResults(id) : f.resultType = cat}

IsPrefix(a, b) == Len(a) <= Len(b) /\ SubSeq(b, 1, Len(a)) = a

\* The vulnerability strategy of FULL scan id threw after the subdomain and
\* parameter strategies had returned, and the task has ended.
VulnPhaseThrew(id) ==
    /\ id \in DOMAIN proc
    /\ proc[id].scanType = FULL
    /\ proc[id].phase = VULNERABILITY
    /\ proc[id].n[VULNERABILITY] = -1
    /\ proc[id].pc = "done"

\* ================================================================ claims

\* C1: in every reachable state and for every scan, completedAt is
\* non-null if and only if the status is COMPLETED, FAILED or CANCELLED.
C1_CompletedAtIffTerminal ==
    \A id \in DOMAIN scans :
        (scans[id].completedAt # Null) <=> (scans[id].status \in Terminal)

\* C2: when the vulnerability strategy of a FULL scan throws after the
\* subdomain and parameter strategies have finished, the scan ends FAILED
\* with completedAt non-null, and get-findings returns every SUBDOMAIN and
\* PARAMETER finding persisted before the failure.
C2_FailedFullScan ==
    \A id \in DOMAIN scans :
        VulnPhaseThrew(id) =>
            /\ GetScan(id).status = FAILED
            /\ GetScan(id).completedAt # Null
            /\ Cardinality(ResultsOf(id, SUBDOMAIN)) = proc[id].n[SUBDOMAIN]
            /\ Cardinality(ResultsOf(id, PARAMETER)) = proc[id].n[PARAMETER]

\* The part of C2 that does not depend on completedAt.
C2_FailedFullScanKeepsFindings ==
    \A id \in DOMAIN scans :
        VulnPhaseThrew(id) =>
            /\ GetScan(id).status = FAILED
            /\ Cardinality(ResultsOf(id, SUBDOMAIN)) = proc[id].n[SUBDOMAIN]
            /\ Cardinality(ResultsOf(id, PARAMETER)) = proc[id].n[PARAMETER]

\* C3: once a scan's status is COMPLETED, FAILED or CANCELLED no step
\* changes it: neither the processing task nor a later updateScanStatus
\* call, and a CANCELLED written while the task runs is not overwritten by
\* the task's own completion.
C3_TerminalIsFinal ==
    [][\A id \in DOMAIN scans :
          scans[id].status \in Terminal =>
              scans'[id].status = scans[id].status]_vars

\* C4: with the orchestrator as the only writer, the status history of each
\* scan is a prefix of PENDING, IN_PROGRESS, COMPLETED or of PENDING,
\* IN_PROGRESS, FAILED.
C4_StatusHistory ==
    \A id \in DOMAIN hist :
        \/ IsPrefix(hist[id], <<PENDING, IN_PROGRESS, COMPLETED>>)
        \/ IsPrefix(hist[id], <<PENDING, IN_PROGRESS, FAILED>>)

C4_Witness ==
    /\ 1 \in DOMAIN hist /\ hist[1] = <<PENDING, IN_PROGRESS, FAILED>>
    /\ 2 \in DOMAIN hist /\ hist[2] = <<PENDING, IN_PROGRESS, COMPLETED>>

\* C5: create-scan with valid input stores a new scan under a previously
\* unused id with status PENDING, completedAt null and findings null, and
\* the Scan sent back with 201 carries exactly those values although the
\* processing task has been started (and not awaited) before the response.
C5_Created(scan, data) ==
    /\ scan.status = PENDING
    /\ scan.completedAt = Null
    /\ scan.findings = NullFindings
    /\ scan.targetDomain = data.targetDomain
    /\ scan.scanType = data.scanType
    /\ scan.scanDepth = data.scanDepth

C5_CreateScan ==
    /\ [][/\ DOMAIN scans \subseteq DOMAIN scans'
          /\ \A id \in DOMAIN scans' \ DOMAIN scans :
                /\ id >= scanId
                /\ \E r \in DOMAIN reqs' :
                      /\ reqs'[r].scan.id = id
                      /\ C5_Created(scans'[id], InsertScan(reqs'[r].body))]_vars
    /\ [](\A r \in DOMAIN reqs :
            reqs[r].code = 201 =>
                /\ C5_Created(reqs[r].scan, InsertScan(reqs[r].body))
                /\ reqs[r].scan.id \in DOMAIN scans
                /\ reqs[r].scan.id \in DOMAIN proc
                /\ \A q \in DOMAIN reqs :
                      (q # r /\ reqs[q].code = 201) =>
                          reqs[q].scan.id # reqs[r].scan.id)

\* Two scans were created and answered with 201; the task of the second has
\* already moved the stored scan on when the response is sent.
C5_Witness ==
    /\ Len(reqs) = 2
    /\ reqs[1].code = 201 /\ reqs[2].code = 201
    /\ reqs[2].scan.id = 2
    /\ proc[2].pc = "inProgress"
    /\ scans[2].status = IN_PROGRESS
    /\ reqs[2].scan.status = PENDING

\* C6: every created scan ends COMPLETED or FAILED: when its processing
\* task has ended, the scan is not left PENDING or IN_PROGRESS.
C6_TaskEndsTerminal ==
    \A id \in DOMAIN proc :
        proc[id].pc = "done" => scans[id].status \in {COMPLETED, FAILED}

\* C7: during a FULL scan the findings summary is updated as each strategy
\* completes: once the subdomain strategy has finished, get-scan shows its
\* subdomains in the summary while later strategies are still running.
C7_SummaryAfterEachStrategy ==
    \A id \in DOMAIN proc :
        (/\ Idle
         /\ proc[id].scanType = FULL
         /\ proc[id].pc = "strategy"
         /\ proc[id].n[SUBDOMAIN] >= 0) =>
            \E e \in GetScan(id).findings.items :
                e = <<"subdomains", proc[id].n[SUBDOMAIN]>>

\* C8: if persisting a finding or the findings summary fails with a storage
\* error, the error stays inside the scan's error boundary (no unhandled
\* rejection), the scan is never COMPLETED and it ends FAILED.
C8_StoreFailed(id) ==
    \/ \E cat \in Categories :
          /\ <<id, cat>> \in DOMAIN stores
          /\ stores[<<id, cat>>].pc = "rejected"
    \/ /\ proc[id].pc \in {"completed", "done"}
       /\ proc[id].findings # NullFindings
       /\ scans[id].findings # proc[id].findings

C8_StorageErrorFailsScan ==
    /\ unhandled = {}
    /\ \A id \in DOMAIN proc :
          C8_StoreFailed(id) =>
              /\ scans[id].status # COMPLETED
              /\ proc[id].pc = "done" => scans[id].status = FAILED

\* C9: a create-scan request that fails input validation (a field missing
\* or of the wrong type) is answered with an error in the same step, and
\* that step creates no scan, starts no task and leaves the store as it was.
C9_Malformed(body) ==
    \/ body.targetDomain.t # "string"
    \/ body.scanType.t # "string"
    \/ body.scanDepth.t # "number"

C9_InvalidRequestRejected ==
    /\ [](\A r \in DOMAIN reqs : C9_Malformed(reqs[r].body) => reqs[r].code = 400)
    /\ [][(/\ Len(reqs') = Len(reqs) + 1
           /\ C9_Malformed(reqs'[Len(reqs')].body)) =>
              /\ reqs'[Len(reqs')].code = 400
              /\ scans' = scans /\ scanId' = scanId
              /\ scanResults' = scanResults /\ resultId' = resultId
              /\ proc' = proc /\ stores' = stores /\ mq' = mq]_vars

\* A malformed request was rejected while the store held a scan.
C9_Witness ==
    /\ Len(reqs) = 2
    /\ reqs[1].code = 201
    /\ C9_Malformed(reqs[2].body) /\ reqs[2].code = 400
    /\ DOMAIN scans = {1} /\ DOMAIN proc = {1}

\* C10: every persisted scan has a depth between 1 and 5 (the range the
\* client form enforces).
C10_DepthInRange ==
    \A id \in DOMAIN scans : formSchemaDepth(scans[id].scanDepth)

\* C11: a scan of type SUBDOMAIN, PARAMETER or VULNERABILITY only ever has
\* persisted findings of the category of its type, so GET
\* /api/scans/:id/results on such a scan returns only entries of that
\* category.
C11_FindingsMatchScanType ==
    \A id \in DOMAIN scans :
        scans[id].scanType \in Categories =>
            \A f \in GetScanResults(id) : f.resultType = scans[id].scanType

\* A completed SUBDOMAIN scan whose findings are persisted.
C11_Witness ==
    \E id \in DOMAIN scans :
        /\ scans[id].scanType = SUBDOMAIN
        /\ scans[id].status = COMPLETED
        /\ GetScanResults(id) # {}

\* C20: the details of every persisted finding have the shape of its
\* category: {domain} for SUBDOMAIN, {name, type} for PARAMETER, {type,
\* description} for VULNERABILITY, whose severity is a field of the finding.
C20_DetailsShape ==
    \A i \in DOMAIN scanResults :
        LET f == scanResults[i]
        IN /\ f.resultType \in Categories
           /\ f.severity \in Severity
           /\ DOMAIN f.details =
                 CASE f.resultType = SUBDOMAIN -> {"domain"}
                   [] f.resultType = PARAMETER -> {"name", "type"}
                   [] OTHER                    -> {"type", "description"}

\* A FULL scan has persisted findings of all three categories.
C20_Witness ==
    \E id \in DOMAIN scans :
        \A cat \in Categories : ResultsOf(id, cat) # {}

\* The call of the subdomain strategy has returned.
SdDone == sdPc = "done"

\* The names the brute-force phase must probe: prefix.domain for every
\* prefix of the wordlist in use.
SdCandidates == {Fqdn(prefixes[i], sdArgs.domain) : i \in DOMAIN prefixes}

\* C12: every name the subdomain strategy returns for target domain d ends
\* with "." followed by d; a hostname of an NS, MX or TXT record is in the
\* output only if it is such a subdomain of d.
C12_OutputUnderDomain ==
    SdDone =>
        \A i \in DOMAIN sdResult :
            endsWith(sdResult[i], Dot \o sdArgs.domain)

\* C13: when no lookup of the brute-force phase resolved, the permutation
\* phase calls lookup for no name, whatever the technique selector and
\* whatever the DNS records contributed.
C13_NoPermutationWithoutBruteForce ==
    (\A l \in sdLookups : l[1] = "bruteforce" => l[2] \notin sdEnv.live)
        => \A l \in sdLookups : l[1] # "permutations"

\* C14: the output of the subdomain strategy contains no name twice.
C14_NoDuplicates ==
    SdDone =>
        \A i, j \in DOMAIN sdResult :
            i # j => sdResult[i] # sdResult[j]

\* The strategy has returned a name that a nameserver record and a
\* brute-force lookup both found, from a wordlist.
C14_Witness ==
    /\ SdDone
    /\ sdArgs.techniques = Technique("all")
    /\ arrayIncludes(sdEnv.ns.recs, Ns1ExampleCom)
    /\ <<"bruteforce", Ns1ExampleCom>> \in sdLookups
    /\ Ns1ExampleCom \in sdEnv.live
    /\ arrayIncludes(sdResult, Ns1ExampleCom)

\* C15: with wordlist "custom" and an array of prefixes as the technique
\* argument, the brute-force phase looks up prefix.domain for every
\* prefix of the array and every one that resolves is in the output.
C15_CustomWordlistProbed ==
    (SdDone /\ sdArgs.wordlist = "custom" /\ sdArgs.techniques.t = "array")
        => \A i \in DOMAIN sdArgs.techniques.a :
               LET name == Fqdn(sdArgs.techniques.a[i], sdArgs.domain)
               IN /\ <<"bruteforce", name>> \in sdLookups
                  /\ name \in sdEnv.live => arrayIncludes(sdResult, name)

\* C16: when the brute-force phase runs, a lookup that fails does not stop
\* the others: every candidate is looked up and every candidate that
\* resolves is in the output.
C16_FailedProbeDoesNotAbort ==
    (SdDone /\ sdArgs.techniques.s \in {"all", "bruteforce"})
        => \A name \in SdCandidates :
               /\ <<"bruteforce", name>> \in sdLookups
               /\ name \in sdEnv.live => arrayIncludes(sdResult, name)

\* The brute-force phase ran over batches in which one lookup failed and
\* another resolved.
C16_Witness ==
    /\ SdDone
    /\ sdArgs.techniques = Technique("bruteforce")
    /\ \E a, b \in SdCandidates :
          /\ a \notin sdEnv.live
          /\ b \in sdEnv.live
          /\ arrayIncludes(sdResult, b)

\* The call of simulatePortScan has returned.
PsDone == psPc = "done"

\* The items of a comma-separated list, without the blanks around them.
ListItems(list) ==
    LET items == split(list, ",")
    IN [i \in DOMAIN items |-> trim(items[i])]

\* The string is the decimal notation of a port, 1 .. 65535.
IsPortLiteral(t) ==
    /\ t # <<>>
    /\ AllDigits(t)
    /\ DigitsValue(t) \in 1 .. 65535

\* The item of a port specification names port p: it is the notation of
\* p, or a range a-b of two integers with a <= p <= b.
ItemNames(t, p) ==
    LET ends == split(t, "-")
    IN IF Len(ends) = 1
       THEN t # <<>> /\ AllDigits(t) /\ DigitsValue(t) = p
       ELSE /\ Len(ends) = 2
            /\ \A k \in 1 .. 2 : trim(ends[k]) # <<>> /\ AllDigits(trim(ends[k]))
            /\ DigitsValue(trim(ends[1])) <= p
            /\ p <= DigitsValue(trim(ends[2]))

\* The port specification of the request: the fixed list, the explicit
\* list or the list of ports and ranges.
RequestedItems(args) ==
    IF args.scanSpecificPorts /\ args.specificPorts # <<>>
    THEN ListItems(args.specificPorts)
    ELSE ListItems(args.portRange)

\* The number x is the port p of the requested specification.
IsRequestedPort(args, x) ==
    /\ x % Unit = 0
    /\ x \div Unit \in 1 .. 65535
    /\ IF args.commonPortsOnly
       THEN arrayIncludes(commonPorts, x)
       ELSE \E i \in DOMAIN RequestedItems(args) :
                ItemNames(RequestedItems(args)[i], x \div Unit)

\* The request asks for the range "1-1000".
AsksRange1To1000(args) ==
    /\ ~args.commonPortsOnly
    /\ ~args.scanSpecificPorts
    /\ args.portRange = Range1To1000

\* C17: for the port specification "1-1000" the expanded candidate set is
\* not empty and has at most the 101 ports the limit on a range allows, and
\* for any port specification the port of every output entry is a port
\* named by the specification, in 1..65535.
C17_PortsWithinSpecification ==
    /\ (psPc \in {"scan", "done"} /\ AsksRange1To1000(psArgs))
            => Len(portsToScan) \in 1 .. 101
    /\ PsDone => \A i \in DOMAIN psResults :
                     IsRequestedPort(psArgs, psResults[i].port)

\* The part of C17 that holds: the candidates of "1-1000" are 1 .. 101.
C17_RangeCeiling ==
    (psPc \in {"scan", "done"} /\ AsksRange1To1000(psArgs))
        => /\ Len(portsToScan) = 101
           /\ \A i \in DOMAIN portsToScan : portsToScan[i] = Port(i)

\* The request gives an explicit list of distinct valid ports.
AsksDistinctValidPorts(args) ==
    /\ ~args.commonPortsOnly
    /\ args.scanSpecificPorts
    /\ args.specificPorts # <<>>
    /\ LET items == ListItems(args.specificPorts)
       IN /\ \A i \in DOMAIN items : IsPortLiteral(items[i])
          /\ \A i, j \in DOMAIN items :
                i # j => DigitsValue(items[i]) # DigitsValue(items[j])

\* C18: a port scan given an explicit list of distinct valid ports
\* returns exactly one entry for each requested port, each with the state
\* open, closed or filtered; "22,80,443" gives 3 entries.
C18_OneEntryPerPort ==
    (PsDone /\ AsksDistinctValidPorts(psArgs))
        => LET items == ListItems(psArgs.specificPorts)
           IN /\ Len(psResults) = Len(items)
              /\ \A i \in DOMAIN items :
                    Cardinality({k \in DOMAIN psResults :
                        psResults[k].port = Port(DigitsValue(items[i]))}) = 1
              /\ \A k \in DOMAIN psResults :
                    psResults[k].state \in {"open", "closed", "filtered"}

\* The part of C18 that holds: the list "22,80,443" gives the three
\* entries of ports 22, 80 and 443.
C18_ThreePorts ==
    (PsDone /\ ~psArgs.commonPortsOnly /\ psArgs.scanSpecificPorts
            /\ psArgs.specificPorts = List22_80_443)
        => /\ Len(psResults) = 3
           /\ {psResults[k].port : k \in DOMAIN psResults}
                 = {Port(22), Port(80), Port(443)}

\* The call of simulateContentDiscovery has returned.
CdDone == cdPc = "done"

\* The status codes the caller accepts.
AcceptedStatusCodes(statusCodesToInclude) ==
    {JsNum(DigitsValue(ListItems(statusCodesToInclude)[i])) :
         i \in DOMAIN ListItems(statusCodesToInclude)}

\* C19: the statusCode of every entry content discovery returns is one of
\* the status codes the caller accepts, with and without recursive and for
\* every list of extensions.
C19_StatusAccepted ==
    CdDone =>
        \A i \in DOMAIN cdResults :
            cdResults[i].statusCode
                \in AcceptedStatusCodes(cdArgs.statusCodesToInclude)

\* The part of C19 that holds: without recursive every status is accepted.
C19_NonRecursive ==
    (CdDone /\ ~cdArgs.recursive) =>
        \A i \in DOMAIN cdResults :
            cdResults[i].statusCode
                \in AcceptedStatusCodes(cdArgs.statusCodesToInclude)

\* C21: findings are append-only: a finding that get-findings(scanId) has
\* returned is returned unchanged by every later get-findings(scanId),
\* whatever status the scan reaches (FAILED included), and two get-findings
\* calls with no createScanResult in between return the same set.
C21_FindingsAppendOnly ==
    [][/\ IsPrefix(scanResults, scanResults')
       /\ \A id \in ScanIds : GetScanResults(id) \subseteq GetScanResults(id)'
       /\ resultId' = resultId =>
              \A id \in ScanIds : GetScanResults(id)' = GetScanResults(id)]_vars

\* A scan has ended FAILED with several findings persisted before the
\* failure.
C21_Witness ==
    \E id \in DOMAIN scans :
        /\ scans[id].status = FAILED
        /\ id \in DOMAIN proc /\ proc[id].pc = "done"
        /\ Cardinality(GetScanResults(id)) >= 2

\* The lookups a step issues.  A step of the strategy is a stretch of
\* synchronous code between two awaits: no lookup completes inside it, so
\* the lookups a step issues are all in flight when it ends.
IssuedBy(phase) ==
    {l \in sdLookups' : l \notin sdLookups /\ l[1] = phase}

\* C22: during the brute-force and permutation phases at most 10 resolver
\* probes are in flight at any moment: no probe of the next window of 10
\* candidates is issued before every probe of the current window has
\* completed.
C22_AtMostTenInFlight ==
    [][/\ Cardinality(IssuedBy("bruteforce")) <= batchSize
       /\ Cardinality(IssuedBy("permutations")) <= batchSize]_vars

\* What holds of the windows: the results are awaited and collected ten at
\* a time, in the order of the candidates.
C22_ResultsCollectedInWindows ==
    /\ sdI % batchSize = 0
    /\ sdPc \in {"bruteforceBatch", "permutationBatch"} =>
           /\ sdI < Len(lookupPromises)
           /\ Len(Batch(lookupPromises, sdI)) <= batchSize

\* C23: the subdomain strategy keeps making forward progress when a probe
\* hangs: every probe call is bounded by a timeout, so the strategy
\* eventually returns even if one resolver probe never answers.
C23_ReturnsDespiteHungProbe == <>SdDone

\* What holds: the strategy returns whenever every probe answers.
C23_ReturnsWhenProbesAnswer == (sdEnv.hung = {}) => <>SdDone

\* The place of a category in the chain of a FULL scan.
Rank(cat) ==
    CASE cat = SUBDOMAIN -> 1 [] cat = PARAMETER -> 2 [] OTHER -> 3

\* In the order in which they were persisted, the findings of scan id go
\* through the categories in the order of the chain.
CategoryOrder(id) ==
    \A i, j \in DOMAIN scanResults :
        (/\ i < j
         /\ scanResults[i].scanId = id
         /\ scanResults[j].scanId = id) =>
            Rank(scanResults[i].resultType) <= Rank(scanResults[j].resultType)

\* Every item the strategy of category cat returned to FULL scan id is
\* persisted.
Drained(id, cat) == Cardinality(ResultsOf(id, cat)) = proc[id].n[cat]

\* C24: in a FULL scan the strategies drain in the order subdomain,
\* parameter, vulnerability: all SUBDOMAIN findings are persisted before
\* the parameter strategy starts and all PARAMETER findings before the
\* vulnerability strategy starts, so no finding of an earlier category is
\* persisted after a finding of a later category.  (processScan calls the
\* next strategy in the step in which the previous one returns.)
C24_StrategiesDrainInOrder ==
    \A id \in DOMAIN proc :
        proc[id].scanType = FULL =>
            /\ proc[id].n[SUBDOMAIN] >= 0 => Drained(id, SUBDOMAIN)
            /\ proc[id].n[PARAMETER] >= 0 => Drained(id, PARAMETER)
            /\ CategoryOrder(id)

\* What holds with MemStorage: the findings are persisted in the order of
\* the chain, and a category is drained when the next strategy returns.
C24_PersistedInChainOrder ==
    \A id \in DOMAIN proc :
        proc[id].scanType = FULL =>
            /\ CategoryOrder(id)
            /\ proc[id].n[PARAMETER] >= 0 => Drained(id, SUBDOMAIN)
            /\ proc[id].n[VULNERABILITY] >= 0 => Drained(id, PARAMETER)

\* The order part of C24 alone.
C24_CategoryOrder ==
    \A id \in DOMAIN proc : proc[id].scanType = FULL => CategoryOrder(id)

\* The call of the technology detection has returned.
TdDone == tdPc = "done"

\* C25: whenever the output of technology detection contains a match in
\* category JavaScript Frameworks, it also contains the baseline library
\* match jQuery.
C25_FrameworkImpliesJQuery ==
    TdDone =>
        (someCategory(tdResult, "JavaScript Frameworks") =>
             \E i \in DOMAIN tdResult :
                 /\ tdResult[i].name = jQuery
                 /\ tdResult[i].category = "JavaScript Libraries")

\* A framework was detected, the category JavaScript Libraries was not
\* selected, and the output carries the jQuery entry the check pushed.
C25_Witness ==
    /\ TdDone
    /\ someCategory(tdResult, "JavaScript Frameworks")
    /\ \A i \in DOMAIN selectedCategories :
           selectedCategories[i] # "JavaScript Libraries"
    /\ Len(tdResult) = numTechnologies + 1
    /\ someName(tdResult, jQuery)

\* Why no framework can come after the check: the loop over the selected
\* categories always detects numTechnologies technologies, so the fill loop
\* of lines 1126-1145 has nothing to add.
C25_FillLoopAddsNothing ==
    tdPc = "fill" => Len(detectedTechnologies) >= numTechnologies

\* C26: the output of technology detection is deduplicated across
\* categories: it never contains two entries with the same technology
\* name, for every choice the detection makes among its category tables.
C26_NoDuplicateNames ==
    TdDone =>
        \A i, j \in DOMAIN tdResult :
            tdResult[i].name = tdResult[j].name => i = j

\* What holds: two entries of the output with the same name are the Nginx
\* of Web Servers and the Nginx of Reverse Proxies.
C26_OnlyNginxRepeats ==
    TdDone =>
        \A i, j \in DOMAIN tdResult :
            (i # j /\ tdResult[i].name = tdResult[j].name) =>
                /\ tdResult[i].name = <<"N", "g", "i", "n", "x">>
                /\ {tdResult[i].category, tdResult[j].category} =
                       {"Web Servers", "Reverse Proxies"}

\* The step is one of the processing of scan id: its processScan task or
\* one of its store*Results loops moves.
TaskMoves(id) ==
    \/ id \in DOMAIN proc' /\ (id \notin DOMAIN proc \/ proc'[id] # proc[id])
    \/ \E cat \in Categories :
          /\ <<id, cat>> \in DOMAIN stores'
          /\ \/ <<id, cat>> \notin DOMAIN stores
             \/ stores'[<<id, cat>>] # stores[<<id, cat>>]

\* C27: scans are isolated from each other: processing one scan never
\* changes another scan's status, completedAt, findings summary or
\* findings, and the failure of one scan leaves every concurrently running
\* scan able to reach its own terminal status.
C27_ScansIsolated ==
    /\ [][\A j \in DOMAIN scans :
             ~TaskMoves(j) =>
                 /\ scans'[j] = scans[j]
                 /\ GetScanResults(j)' = GetScanResults(j)]_vars
    /\ \A a, b \in ScanIds :
          [](/\ a # b
             /\ a \in DOMAIN scans /\ scans[a].status = FAILED
             /\ b \in DOMAIN proc
             => <>(/\ b \in DOMAIN proc /\ proc[b].pc = "done"
                   /\ scans[b].status \in {COMPLETED, FAILED}))

\* One scan has failed while another, a FULL scan with findings persisted,
\* waits for its next strategy.
C27_Witness ==
    \E a, b \in DOMAIN proc :
        /\ a # b
        /\ scans[a].status = FAILED /\ proc[a].pc = "done"
        /\ proc[b].pc = "strategy" /\ proc[b].scanType = FULL
        /\ GetScanResults(b) # {}
        /\ scans[b].status = IN_PROGRESS

\* Every item the strategies of scan id returned is persisted.
AllPersisted(id) ==
    \A cat \in Categories :
        proc[id].n[cat] >= 0 =>
            Cardinality(ResultsOf(id, cat)) = proc[id].n[cat]

\* C28: whenever get-scan reports status COMPLETED, every finding produced
\* by that scan's strategies has already been persisted: get-findings
\* called at any time after COMPLETED has been observed returns the full,
\* final set of the scan's findings.  (get-scan and get-findings are HTTP
\* requests: they observe the states in which Idle holds.)
C28_CompletedMeansPersisted ==
    /\ [](\A id \in DOMAIN proc :
             (Idle /\ GetScan(id).status = COMPLETED) => AllPersisted(id))
    /\ [][\A id \in DOMAIN proc :
             (Idle /\ GetScan(id).status = COMPLETED) =>
                 GetScanResults(id)' = GetScanResults(id)]_vars

\* A FULL scan is reported COMPLETED with the findings of its three
\* strategies persisted.
C28_Witness ==
    \E id \in DOMAIN proc :
        /\ Idle
        /\ GetScan(id).status = COMPLETED
        /\ proc[id].scanType = FULL
        /\ proc[id].n[SUBDOMAIN] = 2
        /\ Cardinality(GetScanResults(id)) =
               proc[id].n[SUBDOMAIN] + proc[id].n[PARAMETER]
                   + proc[id].n[VULNERABILITY]

\* What does not hold in between: the status is written COMPLETED while
\* store*Results still has items to persist.
C28_PersistedWhenStatusWritten ==
    \A id \in DOMAIN proc :
        scans[id].status = COMPLETED => AllPersisted(id)

\* The scan types for which the switch of processScan has a case.
HasStrategy(scanType) ==
    scanType \in {FULL, SUBDOMAIN, PARAMETER, VULNERABILITY}

\* C29: for a scan whose type is CONTENT, PORT_SCAN or TECH_DETECTION (or
\* any type string other than FULL, SUBDOMAIN, PARAMETER, VULNERABILITY),
\* processScan runs no strategy and persists no finding, yet sets the
\* findings summary to an empty object and transitions the scan to
\* COMPLETED.
C29_TypeWithoutStrategyCompletes ==
    /\ [](\A id \in DOMAIN proc :
             ~HasStrategy(scans[id].scanType) =>
                 /\ proc[id].phase = "none" /\ proc[id].pc # "strategy"
                 /\ \A cat \in Categories : <<id, cat>> \notin DOMAIN stores
                 /\ GetScanResults(id) = {}
                 /\ proc[id].pc = "done" =>
                        /\ scans[id].findings = EmptyFindings
                        /\ scans[id].status = COMPLETED
                        /\ hist[id] = <<PENDING, IN_PROGRESS, COMPLETED>>)
    /\ \A id \in ScanIds :
          []((id \in DOMAIN proc /\ ~HasStrategy(scans[id].scanType))
             => <>(/\ id \in DOMAIN proc /\ proc[id].pc = "done"
                   /\ scans[id].status = COMPLETED))

\* A port_scan and a tech_detection scan have
\* completed with an empty summary and no finding.
C29_Witness ==
    /\ DOMAIN proc = {1, 2}
    /\ scans[1].scanType = PORT_SCAN /\ scans[2].scanType = TECH_DETECTION
    /\ \A id \in {1, 2} :
          /\ proc[id].pc = "done"
          /\ scans[id].status = COMPLETED
          /\ scans[id].findings = EmptyFindings
          /\ GetScanResults(id) = {}

\* ---------------------------------------------------------------- C30
\* C30: after any same sequence of status updates applied to a scan, the
\* in-memory and the database gateway report the same status and the same
\* nullness of completedAt.
C30_GatewaysAgree ==
    \A id \in DOMAIN memScans :
        /\ memScans[id].status = dbScans[id].status
        /\ (memScans[id].completedAt = Null) = (dbScans[id].completedAt = Null)

\* The part that holds: both gateways always report the same status, and
\* the same nullness of completedAt whenever no update of the scan came
\* after one that completed it.
UpdateAfterCompleted(id) ==
    \E i, j \in DOMAIN statusUpdates :
        /\ i < j
        /\ statusUpdates[i] = <<id, COMPLETED>>
        /\ statusUpdates[j][1] = id

C30_AgreeUntilUpdatedAfterCompleted ==
    \A id \in DOMAIN memScans :
        /\ memScans[id].status = dbScans[id].status
        /\ ~UpdateAfterCompleted(id) =>
               (memScans[id].completedAt = Null) = (dbScans[id].completedAt = Null)

\* Where they part: after a completed scan is given another status,
\* MemStorage keeps completedAt and DatabaseStorage has cleared it.
C30_OnlyMemKeepsCompletedAt ==
    \A id \in DOMAIN memScans :
        (memScans[id].completedAt = Null) # (dbScans[id].completedAt = Null) =>
            /\ memScans[id].completedAt = Date
            /\ dbScans[id].completedAt = Null
            /\ memScans[id].status # COMPLETED
            /\ UpdateAfterCompleted(id)

====
